---- MODULE Spec2Model ----
(***************************************************************************)
(* Model of the beauty-query pipeline of app/agents/letta.py: the agent    *)
(* identity cache, the classifier exchange and the parsing of its reply    *)
(* (classify_request), the concern dispatch (process_beauty_request,       *)
(* process_with_specialized_agent) and the query rephraser                 *)
(* (rephrase_query).                                                       *)
(*                                                                         *)
(* Texts are sequences of tokens.  A classifier reply is made of the       *)
(* tokens "{", "}", " " (whitespace), "w" (a word of prose without braces) *)
(* and member-list tokens, each standing for a well-formed comma-separated *)
(* list of "key": value members of a JSON object.  A Python dict is a      *)
(* function from the keys it holds to their values; None is the value      *)
(* None.  The agent runtime and its replies are the environment: every     *)
(* call to it may fail, and a delivered reply is any text of the bounded   *)
(* reply set.                                                              *)
(***************************************************************************)
EXTENDS Integers, Sequences, FiniteSets, TLC

VARIABLES
    agent_cache,     \* LettaAgent._agent_cache: agent name -> agent id
    runtime,         \* the agents held by the agent runtime: id i is runtime[i], its name
    op,              \* the call in progress: "none" or the name of the function called
    pc,              \* position inside the call in progress
    user_query,      \* argument of the call in progress
    agent_id,        \* classifier_id / agent_id / rephraser_id of the running stage
    response,        \* the reply delivered to classify_request or rephrase_query
    classify_status, \* classify_request of this call: "none", "running", "returned", "raised"
    classification,  \* value returned by classify_request
    concern,         \* the BeautyConcern that process_beauty_request dispatches on
    status,          \* outcome of the call in progress: "none", "running", "returned", "raised"
    result,          \* value returned by the call in progress
    calls,           \* collaborator calls made by the call in progress, in order
    served,          \* number of calls completed so far
    concern_type,    \* search_beauty_products: its concern_type
    rephrased,       \* search_beauty_products: its rephrased_query
    rag_response,    \* search_beauty_products: its rag_response
    summarized_response, \* search_beauty_products: its summarized_response
    retrievals,      \* calls of get_rag_response made by the call in progress, in order
    agent_ids,       \* initialize_agent_system: its agent_ids
    tasks,           \* the requests running concurrently on the event loop
    loop,            \* the task the event loop is running, 0 if none
    created,         \* names of the agents created by the concurrent requests, in order
    previous,        \* what the call before the call in progress did, when it is repeated
    endpoint         \* the HTTP request being served by an endpoint and the response to it

vars == <<agent_cache, runtime, op, pc, user_query, agent_id, response, classify_status,
          classification, concern, status, result, calls, served, concern_type, rephrased,
          rag_response, summarized_response, retrievals, agent_ids, tasks, loop, created,
          previous, endpoint>>

\* the variables of the concurrent requests alone
task_vars == <<tasks, loop, created>>

\* the variables of search_beauty_products alone
search_locals == <<concern_type, rephrased, rag_response, summarized_response, retrievals>>

----------------------------------------------------------------------------
(* Bounds *)

MaxReplyLen == 3      \* longest classifier reply, in tokens
MaxRephraseLen == 3   \* longest rephraser reply, in tokens
MaxRequests == 2      \* calls served in one run
MaxTasks == 2         \* requests running concurrently

----------------------------------------------------------------------------
(* Values *)

None == "<None>"
NoValue == [none |-> TRUE]

\* no endpoint is serving a request
NoEndpoint == [request |-> NoValue, response |-> NoValue]
EmptyDict == [k \in {} |-> None]

\* class BeautyConcern
BeautyConcern ==
    {"acne", "aging", "sensitivity", "dryness", "oiliness", "hyperpigmentation", "general"}

\* class RequestType
RequestType == {"product", "ingredient", "concern", "general_beauty"}

\* dict.get(key, default)
Get(d, key, default) == IF key \in DOMAIN d THEN d[key] ELSE default

RequiredKeys == {"request_type", "beauty_concern", "confidence", "reasoning", "suggested_agent"}

----------------------------------------------------------------------------
(* Texts *)

LB == [t |-> "{"]
RB == [t |-> "}"]
WS == [t |-> " "]
W == [t |-> "w"]
\* a well-formed list of "key": value members denoting the dict d
Members(d) == [t |-> "members", d |-> d]

\* the agent names of get_or_create_*_agent
ClassifierName == "beauty_classifier_agent"
RephraserName == "beauty_query_rephraser_agent"
ConcernAgentName(c) == "beauty_" \o c \o "_agent"

\* the record the classifier is instructed to answer with
Verdict(c, a) ==
    [request_type |-> "concern", beauty_concern |-> c, confidence |-> "0.9",
     reasoning |-> "r", suggested_agent |-> a]

Restrict(d, keys) == [k \in (DOMAIN d) \cap keys |-> d[k]]

\* the dicts the member lists of the modelled replies denote: a full verdict
\* for each concern, verdicts whose concern is no member of the enumeration,
\* a verdict suggesting another agent than the concern's, verdicts lacking one
\* required key, and a record with none of the required keys
ClassifierDicts ==
    {Verdict(c, ConcernAgentName(c)) : c \in BeautyConcern}
    \cup {Verdict("rosacea", "beauty_general_agent"), Verdict(None, "beauty_general_agent"),
          Verdict("acne", "beauty_general_agent")}
    \cup {Restrict(Verdict("acne", "beauty_acne_agent"), RequiredKeys \ {k}) : k \in RequiredKeys}
    \cup {[note |-> "n"]}

ReplyAlphabet == {LB, RB, WS, W, Members(Verdict("acne", "beauty_acne_agent"))}

RECURSIVE TextsOver(_, _)
TextsOver(alphabet, n) ==
    IF n = 0 THEN {<<>>}
    ELSE LET shorter == TextsOver(alphabet, n - 1)
         IN shorter \cup {Append(s, a) : s \in {x \in shorter : Len(x) = n - 1}, a \in alphabet}

\* the texts the classifier agent may reply
ClassifierReplies ==
    TextsOver(ReplyAlphabet, MaxReplyLen) \cup {<<LB, Members(d), RB>> : d \in ClassifierDicts}

\* chat_with_agent's return value: the assistant messages of the reply
Response(texts) == [messages |-> [i \in 1..Len(texts) |-> [content |-> texts[i]]]]

ClassifierResponses == {Response(<<>>)} \cup {Response(<<r>>) : r \in ClassifierReplies}

\* str.find: index (from 0) of the first occurrence, -1 if none
find(s, c) ==
    IF \E i \in 1..Len(s) : s[i] = c
    THEN (CHOOSE i \in 1..Len(s) : s[i] = c /\ \A j \in 1..(i - 1) : s[j] # c) - 1
    ELSE -1

\* str.rfind: index (from 0) of the last occurrence, -1 if none
rfind(s, c) ==
    IF \E i \in 1..Len(s) : s[i] = c
    THEN (CHOOSE i \in 1..Len(s) : s[i] = c /\ \A j \in (i + 1)..Len(s) : s[j] # c) - 1
    ELSE -1

\* s[start:end] for 0 <= start, 0 <= end <= len(s)
Slice(s, start, end) == SubSeq(s, start + 1, end)

\* json.loads: whitespace between tokens is insignificant; the text decodes
\* iff it is one object, "{" "}" or "{" members "}"; else JSONDecodeError
json_loads(s) ==
    LET toks == SelectSeq(s, LAMBDA x : x # WS)
    IN  IF toks = <<LB, RB>> THEN [ok |-> TRUE, value |-> EmptyDict]
        ELSE IF Len(toks) = 3 /\ toks[1] = LB /\ toks[2].t = "members" /\ toks[3] = RB
             THEN [ok |-> TRUE, value |-> toks[2].d]
             ELSE [ok |-> FALSE, value |-> EmptyDict]

\* the fallback classification, with its reasoning
Fallback(reasoning) ==
    [request_type |-> "general_beauty", beauty_concern |-> "general", confidence |-> "0.5",
     reasoning |-> reasoning, suggested_agent |-> "beauty_general_agent"]

\* classify_request, extraction of the reply text
assistant_content(reply) ==
    IF "messages" \in DOMAIN reply /\ Len(reply.messages) > 0
    THEN Get(reply.messages[1], "content", <<>>)
    ELSE <<>>

\* parse_classification with a decoding failure leaving the classification empty
parse_classification_NoFallback(content) ==
    LET start_idx == find(content, LB)
        end_idx == rfind(content, RB) + 1
        parsed ==
            IF start_idx # -1 /\ end_idx # 0
            THEN json_loads(Slice(content, start_idx, end_idx)).value
            ELSE Fallback("Could not parse classifier response")
    IN  [raised |-> FALSE, value |-> ("raw_response" :> content) @@ parsed]

\* parse_classification without the handler of JSONDecodeError
parse_classification_Uncaught(content) ==
    LET start_idx == find(content, LB)
        end_idx == rfind(content, RB) + 1
        decoded == json_loads(Slice(content, start_idx, end_idx))
    IN  IF start_idx # -1 /\ end_idx # 0
        THEN [raised |-> ~decoded.ok, value |-> ("raw_response" :> content) @@ decoded.value]
        ELSE [raised |-> FALSE,
              value |-> ("raw_response" :> content)
                            @@ Fallback("Could not parse classifier response")]

\* classify_request, from the reply text to the returned classification;
\* raised tells that an exception leaves the parsing (none does: the only
\* error of json.loads on a text is JSONDecodeError, which is handled)
parse_classification(content) ==
    LET start_idx == find(content, LB)
        end_idx == rfind(content, RB) + 1
        parsed ==
            IF start_idx # -1 /\ end_idx # 0
            THEN LET decoded == json_loads(Slice(content, start_idx, end_idx))
                 IN  IF decoded.ok THEN decoded.value ELSE Fallback("JSON parsing failed")
            ELSE Fallback("Could not parse classifier response")
    IN  [raised |-> FALSE, value |-> ("raw_response" :> content) @@ parsed]

\* str.strip: the text without its leading and trailing whitespace
RECURSIVE strip(_)
strip(s) ==
    IF s = <<>> THEN s
    ELSE IF Head(s) = WS THEN strip(Tail(s))
    ELSE IF s[Len(s)] = WS THEN strip(SubSeq(s, 1, Len(s) - 1))
    ELSE s

\* rephrase_query, from the reply to the returned query
rephrased_query(original_query, reply) ==
    IF "messages" \in DOMAIN reply /\ Len(reply.messages) > 0
    THEN strip(Get(reply.messages[1], "content", <<>>))
    ELSE original_query

\* coerce_concern without the fallback on ValueError
coerce_concern_Unchecked(concern_str) == concern_str

\* BeautyConcern(concern_str), ValueError giving BeautyConcern.GENERAL
coerce_concern(concern_str) ==
    IF concern_str \in BeautyConcern THEN concern_str ELSE "general"

----------------------------------------------------------------------------
(* The identity cache and the agent runtime *)

\* one collaborator call: client.agents.list ("list"), client.agents.create
\* ("create") or client.agents.messages.create ("send"); name is the agent
\* name looked up, created or messaged, id the agent messaged
CallRec(call, name, id, ok) == [call |-> call, name |-> name, id |-> id, ok |-> ok]

\* LettaAgent.list_agents: the ids of the agents named agent_name
Listed(agent_name) == {i \in 1..Len(runtime) : runtime[i] = agent_name}

\* get_or_create that creates the agent without looking it up in the runtime
get_or_create_NoLookup(agent_name) ==
    IF agent_name \in DOMAIN agent_cache
    THEN {[ok |-> TRUE, id |-> agent_cache[agent_name], cache |-> agent_cache,
           runtime |-> runtime, log |-> <<>>]}
    ELSE {[ok |-> FALSE, id |-> 0, cache |-> agent_cache, runtime |-> runtime,
           log |-> <<CallRec("create", agent_name, 0, FALSE)>>],
          [ok |-> TRUE, id |-> Len(runtime) + 1,
           cache |-> (agent_name :> (Len(runtime) + 1)) @@ agent_cache,
           runtime |-> Append(runtime, agent_name),
           log |-> <<CallRec("create", agent_name, Len(runtime) + 1, TRUE)>>]}

\* get_or_create_*_agent for the agent named agent_name: the set of its
\* possible outcomes.  ok is FALSE when it raises; cache, runtime and log
\* are the identity cache, the runtime and the collaborator calls after it.
get_or_create(agent_name) ==
    IF agent_name \in DOMAIN agent_cache
    THEN {[ok |-> TRUE, id |-> agent_cache[agent_name], cache |-> agent_cache,
           runtime |-> runtime, log |-> <<>>]}
    ELSE
        \* list_agents raises
        {[ok |-> FALSE, id |-> 0, cache |-> agent_cache, runtime |-> runtime,
          log |-> <<CallRec("list", agent_name, 0, FALSE)>>]}
        \cup
        (IF Listed(agent_name) # {}
         THEN \* an agent of that name exists: cache and return its id
              {[ok |-> TRUE, id |-> i, cache |-> (agent_name :> i) @@ agent_cache,
                runtime |-> runtime, log |-> <<CallRec("list", agent_name, 0, TRUE)>>]
                 : i \in Listed(agent_name)}
         ELSE \* create_agent raises, or creates the agent and caches its id
              {[ok |-> FALSE, id |-> 0, cache |-> agent_cache, runtime |-> runtime,
                log |-> <<CallRec("list", agent_name, 0, TRUE),
                          CallRec("create", agent_name, 0, FALSE)>>],
               [ok |-> TRUE, id |-> Len(runtime) + 1,
                cache |-> (agent_name :> (Len(runtime) + 1)) @@ agent_cache,
                runtime |-> Append(runtime, agent_name),
                log |-> <<CallRec("list", agent_name, 0, TRUE),
                          CallRec("create", agent_name, Len(runtime) + 1, TRUE)>>]})

get_or_create_classifier_agent == get_or_create(ClassifierName)

\* get_or_create_concern_agent resolving the general specialist for every concern
get_or_create_concern_agent_General(c) == get_or_create("beauty_general_agent")

get_or_create_concern_agent(c) == get_or_create(ConcernAgentName(c))

\* get_or_create_rephraser_agent resolving the classifier agent
get_or_create_rephraser_agent_Classifier == get_or_create(ClassifierName)

get_or_create_rephraser_agent == get_or_create(RephraserName)

\* the call to chat_with_agent(id, ...) as it is logged
SendRec(id, ok) == CallRec("send", runtime[id], id, ok)

----------------------------------------------------------------------------
(* Inputs *)

Acne == [t |-> "acne"]

Queries == {<<W>>, <<W, WS, Acne>>}

\* the texts the rephraser agent may reply
RephraserReplies == TextsOver({WS, W}, MaxRephraseLen)

RephraserResponses == {Response(<<>>)} \cup {Response(<<r>>) : r \in RephraserReplies}

\* the replies of a specialist agent: no assistant message, or one
SpecialistResponses == {Response(<<>>), Response(<<(<<W>>)>>)}

\* the agents the runtime may hold when the process starts
RECURSIVE Arrangements(_)
Arrangements(names) ==
    IF names = {} THEN {<<>>}
    ELSE UNION {{<<n>> \o s : s \in Arrangements(names \ {n})} : n \in names}

InitialRuntimes(names) == UNION {Arrangements(ns) : ns \in SUBSET names}

----------------------------------------------------------------------------
(* The texts of search_beauty_products *)

\* the text made of the characters chars
Text(chars) == [i \in 1..Len(chars) |-> [t |-> chars[i]]]

UpperCase ==
    [A |-> "a", B |-> "b", C |-> "c", D |-> "d", E |-> "e", F |-> "f", G |-> "g",
     H |-> "h", I |-> "i", J |-> "j", K |-> "k", L |-> "l", M |-> "m", N |-> "n",
     O |-> "o", P |-> "p", Q |-> "q", R |-> "r", S |-> "s", T |-> "t", U |-> "u",
     V |-> "v", W |-> "w", X |-> "x", Y |-> "y", Z |-> "z"]

\* str.lower
lower(s) ==
    [i \in 1..Len(s) |-> IF s[i].t \in DOMAIN UpperCase THEN [t |-> UpperCase[s[i].t]] ELSE s[i]]

\* keyword in query_lower
contains(s, keyword) ==
    \E i \in 0..(Len(s) - Len(keyword)) : SubSeq(s, i + 1, i + Len(keyword)) = keyword

\* the order of the keys of concern_keywords
concern_order == <<"acne", "aging", "sensitivity", "dryness", "oiliness", "hyperpigmentation">>

\* _detect_concern_type, the keyword mappings
concern_keywords ==
    [acne |->
        {Text(<<"a", "c", "n", "e">>), Text(<<"b", "r", "e", "a", "k", "o", "u", "t">>),
         Text(<<"p", "i", "m", "p", "l", "e">>),
         Text(<<"b", "l", "a", "c", "k", "h", "e", "a", "d">>),
         Text(<<"w", "h", "i", "t", "e", "h", "e", "a", "d">>),
         Text(<<"b", "l", "e", "m", "i", "s", "h">>), Text(<<"s", "p", "o", "t">>),
         Text(<<"c", "o", "m", "e", "d", "o", "n", "e">>)},
     aging |->
        {Text(<<"a", "g", "i", "n", "g">>), Text(<<"w", "r", "i", "n", "k", "l", "e">>),
         Text(<<"f", "i", "n", "e", " ", "l", "i", "n", "e">>),
         Text(<<"a", "n", "t", "i", "-", "a", "g", "i", "n", "g">>),
         Text(<<"m", "a", "t", "u", "r", "e">>),
         Text(<<"c", "o", "l", "l", "a", "g", "e", "n">>),
         Text(<<"e", "l", "a", "s", "t", "i", "c", "i", "t", "y">>),
         Text(<<"s", "a", "g", "g", "i", "n", "g">>)},
     sensitivity |->
        {Text(<<"s", "e", "n", "s", "i", "t", "i", "v", "e">>),
         Text(<<"i", "r", "r", "i", "t", "a", "t", "i", "o", "n">>),
         Text(<<"r", "e", "d", "n", "e", "s", "s">>),
         Text(<<"r", "e", "a", "c", "t", "i", "v", "e">>),
         Text(<<"a", "l", "l", "e", "r", "g", "i", "c">>),
         Text(<<"g", "e", "n", "t", "l", "e">>),
         Text(<<"h", "y", "p", "o", "a", "l", "l", "e", "r", "g", "e", "n", "i", "c">>)},
     dryness |->
        {Text(<<"d", "r", "y">>),
         Text(<<"d", "e", "h", "y", "d", "r", "a", "t", "e", "d">>),
         Text(<<"m", "o", "i", "s", "t", "u", "r", "e">>),
         Text(<<"h", "y", "d", "r", "a", "t", "i", "o", "n">>),
         Text(<<"f", "l", "a", "k", "y">>), Text(<<"t", "i", "g", "h", "t">>),
         Text(<<"p", "a", "r", "c", "h", "e", "d">>)},
     oiliness |->
        {Text(<<"o", "i", "l", "y">>), Text(<<"g", "r", "e", "a", "s", "y">>),
         Text(<<"s", "h", "i", "n", "e">>), Text(<<"s", "e", "b", "u", "m">>),
         Text(<<"t", "-", "z", "o", "n", "e">>),
         Text(<<"c", "o", "m", "b", "i", "n", "a", "t", "i", "o", "n">>),
         Text(<<"l", "a", "r", "g", "e", " ", "p", "o", "r", "e">>)},
     hyperpigmentation |->
        {Text(<<"d", "a", "r", "k", " ", "s", "p", "o", "t">>),
         Text(<<"p", "i", "g", "m", "e", "n", "t", "a", "t", "i", "o", "n">>),
         Text(<<"m", "e", "l", "a", "s", "m", "a">>),
         Text(<<"a", "g", "e", " ", "s", "p", "o", "t">>),
         Text(<<"s", "u", "n", " ", "s", "p", "o", "t">>),
         Text(<<"d", "i", "s", "c", "o", "l", "o", "r", "a", "t", "i", "o", "n">>),
         Text(<<"u", "n", "e", "v", "e", "n", " ", "t", "o", "n", "e">>)}]

\* detect_concern_type with the last matching concern taken
detect_concern_type_Last(query) ==
    LET query_lower == lower(query)
        matching == {i \in 1..Len(concern_order) :
                        \E keyword \in concern_keywords[concern_order[i]] :
                            contains(query_lower, keyword)}
    IN  IF matching = {} THEN None
        ELSE concern_order[CHOOSE i \in matching : \A j \in matching : i >= j]

\* _detect_concern_type: the first concern, in the order of the mappings, one
\* of whose keywords occurs in the lower-cased query; None if there is none
detect_concern_type(query) ==
    LET query_lower == lower(query)
        matching == {i \in 1..Len(concern_order) :
                        \E keyword \in concern_keywords[concern_order[i]] :
                            contains(query_lower, keyword)}
    IN  IF matching = {} THEN None
        ELSE concern_order[CHOOSE i \in matching : \A j \in matching : i <= j]

\* the queries given to search_beauty_products
SearchQueries ==
    {Text(<<"b", "e", "s", "t", " ", "m", "o", "i", "s", "t", "u", "r", "i", "z", "e", "r", " ", "f", "o", "r", " ", "d", "r", "y", " ", "s", "k", "i", "n">>),
     Text(<<"D", "a", "r", "k", " ", "S", "p", "o", "t", "s">>),
     Text(<<"o", "i", "l", "y", " ", "t", "-", "z", "o", "n", "e">>),
     Text(<<"A", "N", "T", "I", "-", "A", "G", "I", "N", "G">>),
     Text(<<"m", "e", "l", "a", "s", "m", "a">>),
     Text(<<"g", "e", "n", "t", "l", "e">>),
     Text(<<"h", "e", "l", "l", "o">>),
     Text(<<"d", "r", "y", " ", "a", "c", "n", "e">>),
     <<W>>}

\* the concern_type given to search_beauty_products
ConcernHints == {None, "aging"}

SummarizerName == "beauty_response_summarizer_agent"

\* the answers of the retriever
Answers == {<<>>, <<W>>}

\* the replies of the summarizer agent
SummarizerResponses ==
    {Response(<<>>), Response(<<(<<>>)>>), Response(<<(<<WS>>)>>), Response(<<(<<W, W>>)>>)}

----------------------------------------------------------------------------
(* Calls *)

Idle ==
    /\ op = "none" \/ pc = "done"
    /\ endpoint.request = NoValue \/ endpoint.response # NoValue

\* a caller invokes f(q); entry is f's first position
Invoke(f, entry) ==
    /\ Idle
    /\ served < MaxRequests
    /\ \E q \in Queries : user_query' = q
    /\ op' = f
    /\ pc' = entry
    /\ status' = "running"
    /\ classify_status' = IF entry = "classifier_resolve" THEN "running" ELSE "none"
    /\ agent_id' = 0
    /\ response' = NoValue
    /\ classification' = NoValue
    /\ concern' = None
    /\ result' = NoValue
    /\ calls' = <<>>
    /\ served' = served + 1
    /\ concern_type' = None
    /\ rephrased' = NoValue
    /\ rag_response' = NoValue
    /\ summarized_response' = NoValue
    /\ retrievals' = <<>>
    /\ agent_ids' = NoValue
    /\ UNCHANGED <<agent_cache, runtime>>
    /\ UNCHANGED task_vars
    /\ UNCHANGED previous
    /\ UNCHANGED endpoint

\* the call in progress raises
Raise ==
    /\ status' = "raised"
    /\ pc' = "done"
    /\ result' = NoValue

\* the call in progress returns value
Return(value) ==
    /\ status' = "returned"
    /\ pc' = "done"
    /\ result' = value

\* the effects of an outcome of get_or_create on the cache and the runtime
Resolved(out) ==
    /\ agent_cache' = out.cache
    /\ runtime' = out.runtime
    /\ calls' = calls \o out.log

Call_classify_request == Invoke("classify_request", "classifier_resolve")

Call_process_beauty_request == Invoke("process_beauty_request", "classifier_resolve")

\* classify_request: classifier_id = await self.get_or_create_classifier_agent()
ClassifierResolve ==
    /\ pc = "classifier_resolve"
    /\ \E out \in get_or_create_classifier_agent :
        /\ Resolved(out)
        /\ IF out.ok
           THEN /\ agent_id' = out.id
                /\ pc' = "classifier_send"
                /\ UNCHANGED <<classify_status, status, result>>
           ELSE /\ classify_status' = "raised"
                /\ Raise
                /\ UNCHANGED agent_id
    /\ UNCHANGED <<op, user_query, response, classification, concern, served>>
    /\ UNCHANGED search_locals
    /\ UNCHANGED <<agent_ids, tasks, loop, created, previous, endpoint>>

\* ClassifierSendFails with process_beauty_request going on with the
\* fallback classification
ClassifierSendFails_Fallback ==
    /\ pc = "classifier_send"
    /\ calls' = Append(calls, SendRec(agent_id, FALSE))
    /\ classify_status' = "raised"
    /\ IF op = "classify_request"
       THEN Raise /\ UNCHANGED classification
       ELSE /\ classification' = Fallback("Could not parse classifier response")
            /\ pc' = "dispatch"
            /\ UNCHANGED <<status, result>>
    /\ UNCHANGED <<agent_cache, runtime, op, user_query, agent_id, response, concern, served>>
    /\ UNCHANGED search_locals
    /\ UNCHANGED <<agent_ids, tasks, loop, created, previous, endpoint>>

\* classify_request: the exchange with the classifier agent fails
ClassifierSendFails ==
    /\ pc = "classifier_send"
    /\ calls' = Append(calls, SendRec(agent_id, FALSE))
    /\ classify_status' = "raised"
    /\ Raise
    /\ UNCHANGED <<agent_cache, runtime, op, user_query, agent_id, response,
                   classification, concern, served>>
    /\ UNCHANGED search_locals
    /\ UNCHANGED <<agent_ids, tasks, loop, created, previous, endpoint>>

\* classify_request: the classifier agent replies and the reply is parsed;
\* process_beauty_request goes on with the classification
ClassifierReply ==
    /\ pc = "classifier_send"
    /\ calls' = Append(calls, SendRec(agent_id, TRUE))
    /\ \E reply \in ClassifierResponses :
        LET parsed == parse_classification(assistant_content(reply))
        IN  /\ response' = reply
            /\ IF parsed.raised
               THEN /\ classify_status' = "raised"
                    /\ Raise
                    /\ UNCHANGED classification
               ELSE /\ classification' = parsed.value
                    /\ classify_status' = "returned"
                    /\ IF op = "classify_request"
                       THEN Return(parsed.value)
                       ELSE /\ pc' = "dispatch"
                            /\ UNCHANGED <<status, result>>
    /\ UNCHANGED <<agent_cache, runtime, op, user_query, agent_id, concern, served>>
    /\ UNCHANGED search_locals
    /\ UNCHANGED <<agent_ids, tasks, loop, created, previous, endpoint>>

\* Dispatch choosing the specialist the verdict suggests
Dispatch_BySuggestion ==
    /\ pc = "dispatch"
    /\ LET suggested == Get(classification, "suggested_agent", "")
           named == {c \in BeautyConcern : ConcernAgentName(c) = suggested}
       IN  concern' = IF named = {} THEN "general" ELSE CHOOSE c \in named : TRUE
    /\ \E out \in get_or_create_concern_agent(concern') :
        /\ Resolved(out)
        /\ IF out.ok
           THEN /\ agent_id' = out.id
                /\ pc' = "specialist_send"
                /\ UNCHANGED <<status, result>>
           ELSE /\ Raise
                /\ UNCHANGED agent_id
    /\ UNCHANGED <<op, user_query, response, classify_status, classification, served>>
    /\ UNCHANGED search_locals
    /\ UNCHANGED <<agent_ids, tasks, loop, created, previous, endpoint>>

\* Dispatch with the classifier asked again when the specialist cannot be resolved
Dispatch_Reclassifies ==
    /\ pc = "dispatch"
    /\ concern' = coerce_concern(Get(classification, "beauty_concern", "general"))
    /\ \E out \in get_or_create_concern_agent(concern') :
        /\ Resolved(out)
        /\ IF out.ok
           THEN /\ agent_id' = out.id
                /\ pc' = "specialist_send"
                /\ UNCHANGED <<status, result>>
           ELSE /\ pc' = "classifier_send"
                /\ UNCHANGED <<agent_id, status, result>>
    /\ UNCHANGED <<op, user_query, response, classify_status, classification, served>>
    /\ UNCHANGED search_locals
    /\ UNCHANGED <<agent_ids, tasks, loop, created, previous, endpoint>>

\* process_beauty_request: the concern of the classification, coerced, and
\* process_with_specialized_agent: agent_id = await self.get_or_create_concern_agent(concern)
Dispatch ==
    /\ pc = "dispatch"
    /\ concern' = coerce_concern(Get(classification, "beauty_concern", "general"))
    /\ \E out \in get_or_create_concern_agent(concern') :
        /\ Resolved(out)
        /\ IF out.ok
           THEN /\ agent_id' = out.id
                /\ pc' = "specialist_send"
                /\ UNCHANGED <<status, result>>
           ELSE /\ Raise
                /\ UNCHANGED agent_id
    /\ UNCHANGED <<op, user_query, response, classify_status, classification, served>>
    /\ UNCHANGED search_locals
    /\ UNCHANGED <<agent_ids, tasks, loop, created, previous, endpoint>>

\* SpecialistSendFails with the classification returned on its own
SpecialistSendFails_PartialResult ==
    /\ pc = "specialist_send"
    /\ calls' = Append(calls, SendRec(agent_id, FALSE))
    /\ Return([classification |-> classification])
    /\ UNCHANGED <<agent_cache, runtime, op, user_query, agent_id, response,
                   classify_status, classification, concern, served>>
    /\ UNCHANGED search_locals
    /\ UNCHANGED <<agent_ids, tasks, loop, created, previous, endpoint>>

\* process_with_specialized_agent: the exchange with the specialist fails
SpecialistSendFails ==
    /\ pc = "specialist_send"
    /\ calls' = Append(calls, SendRec(agent_id, FALSE))
    /\ Raise
    /\ UNCHANGED <<agent_cache, runtime, op, user_query, agent_id, response,
                   classify_status, classification, concern, served>>
    /\ UNCHANGED search_locals
    /\ UNCHANGED <<agent_ids, tasks, loop, created, previous, endpoint>>

\* process_with_specialized_agent returns and process_beauty_request
\* assembles its result
SpecialistReply ==
    /\ pc = "specialist_send"
    /\ calls' = Append(calls, SendRec(agent_id, TRUE))
    /\ \E reply \in SpecialistResponses :
        Return([classification |-> classification,
                specialist_response |->
                    [agent_id |-> agent_id, concern |-> concern, response |-> reply,
                     context |-> classification],
                pipeline |-> "multi_agent_react"])
    /\ UNCHANGED <<agent_cache, runtime, op, user_query, agent_id, response,
                   classify_status, classification, concern, served>>
    /\ UNCHANGED search_locals
    /\ UNCHANGED <<agent_ids, tasks, loop, created, previous, endpoint>>

Call_rephrase_query == Invoke("rephrase_query", "rephraser_resolve")

\* rephrase_query returns value, to its caller or, inside
\* search_beauty_products, into rephrased_query
RephraseReturns(value) ==
    IF op = "rephrase_query"
    THEN Return(value) /\ UNCHANGED rephrased
    ELSE /\ rephrased' = value
         /\ pc' = "retrieve"
         /\ UNCHANGED <<status, result>>

\* rephrase_query: rephraser_id = await self.get_or_create_rephraser_agent();
\* when that raises, the original query is returned
RephraserResolve ==
    /\ pc = "rephraser_resolve"
    /\ \E out \in get_or_create_rephraser_agent :
        /\ Resolved(out)
        /\ IF out.ok
           THEN /\ agent_id' = out.id
                /\ pc' = "rephraser_send"
                /\ UNCHANGED <<status, result, rephrased>>
           ELSE /\ RephraseReturns(user_query)
                /\ UNCHANGED agent_id
    /\ UNCHANGED <<op, user_query, response, classify_status, classification, concern,
                   served, concern_type, rag_response, summarized_response, retrievals>>
    /\ UNCHANGED <<agent_ids, tasks, loop, created, previous, endpoint>>

\* RephraserSendFails with the failure propagated
RephraserSendFails_Raises ==
    /\ pc = "rephraser_send"
    /\ calls' = Append(calls, SendRec(agent_id, FALSE))
    /\ Raise
    /\ UNCHANGED <<agent_cache, runtime, op, user_query, agent_id, response,
                   classify_status, classification, concern, served>>
    /\ UNCHANGED search_locals
    /\ UNCHANGED <<agent_ids, tasks, loop, created, previous, endpoint>>

\* rephrase_query: the exchange with the rephraser agent fails and the
\* original query is returned
RephraserSendFails ==
    /\ pc = "rephraser_send"
    /\ calls' = Append(calls, SendRec(agent_id, FALSE))
    /\ RephraseReturns(user_query)
    /\ UNCHANGED <<agent_cache, runtime, op, user_query, agent_id, response,
                   classify_status, classification, concern, served, concern_type,
                   rag_response, summarized_response, retrievals>>
    /\ UNCHANGED <<agent_ids, tasks, loop, created, previous, endpoint>>

\* rephrase_query: the rephraser agent replies
RephraserReply ==
    /\ pc = "rephraser_send"
    /\ calls' = Append(calls, SendRec(agent_id, TRUE))
    /\ \E reply \in RephraserResponses :
        /\ response' = reply
        /\ RephraseReturns(rephrased_query(user_query, reply))
    /\ UNCHANGED <<agent_cache, runtime, op, user_query, agent_id, classify_status,
                   classification, concern, served, concern_type, rag_response,
                   summarized_response, retrievals>>
    /\ UNCHANGED <<agent_ids, tasks, loop, created, previous, endpoint>>

Init ==
    /\ agent_cache = EmptyDict
    /\ runtime \in InitialRuntimes({ClassifierName, ConcernAgentName("general")})
    /\ op = "none"
    /\ pc = "idle"
    /\ user_query = <<>>
    /\ agent_id = 0
    /\ response = NoValue
    /\ classify_status = "none"
    /\ classification = NoValue
    /\ concern = None
    /\ status = "none"
    /\ result = NoValue
    /\ calls = <<>>
    /\ served = 0
    /\ concern_type = None
    /\ rephrased = NoValue
    /\ rag_response = NoValue
    /\ summarized_response = NoValue
    /\ retrievals = <<>>
    /\ agent_ids = NoValue
    /\ tasks = <<>>
    /\ loop = 0
    /\ created = <<>>
    /\ previous = NoValue
    /\ endpoint = NoEndpoint

Next ==
    \/ Call_classify_request
    \/ Call_process_beauty_request
    \/ ClassifierResolve
    \/ ClassifierSendFails
    \/ ClassifierReply
    \/ Dispatch
    \/ SpecialistSendFails
    \/ SpecialistReply

Spec == Init /\ [][Next]_vars

\* the rephraser alone
InitRephrase ==
    /\ agent_cache = EmptyDict
    /\ runtime \in InitialRuntimes({RephraserName})
    /\ op = "none"
    /\ pc = "idle"
    /\ user_query = <<>>
    /\ agent_id = 0
    /\ response = NoValue
    /\ classify_status = "none"
    /\ classification = NoValue
    /\ concern = None
    /\ status = "none"
    /\ result = NoValue
    /\ calls = <<>>
    /\ served = 0
    /\ concern_type = None
    /\ rephrased = NoValue
    /\ rag_response = NoValue
    /\ summarized_response = NoValue
    /\ retrievals = <<>>
    /\ agent_ids = NoValue
    /\ tasks = <<>>
    /\ loop = 0
    /\ created = <<>>
    /\ previous = NoValue
    /\ endpoint = NoEndpoint

NextRephrase ==
    \/ Call_rephrase_query
    \/ RephraserResolve
    \/ RephraserSendFails
    \/ RephraserReply

SpecRephrase == InitRephrase /\ [][NextRephrase]_vars

----------------------------------------------------------------------------
(* search_beauty_products *)

\* `not concern_type`
Falsy(v) == v = None \/ v = ""

\* summarize_response: the content of the first message of the reply, "" if
\* the reply has no message
summary_of(reply) == IF Len(reply.messages) > 0 THEN reply.messages[1].content ELSE <<>>

\* summarize_response: the value returned when the summarizer replied
summarized(rag_answer, original_query, reply, summarizer_id) ==
    [summary |-> summary_of(reply), original_query |-> original_query,
     original_rag_response |-> rag_answer, summarizer_agent_id |-> summarizer_id]

\* summarize_response: the value returned when resolving the summarizer or
\* the exchange with it raised
summarize_failed(rag_answer, original_query) ==
    [summary |-> rag_answer, original_query |-> original_query,
     original_rag_response |-> rag_answer, error |-> "Summarization failed"]

\* get_rag_response reporting the category general when no concern type is given
get_rag_response_General(query, tag, answer) ==
    [answer |-> answer, query |-> query, concern_type |-> IF Falsy(tag) THEN "general" ELSE tag]

\* get_rag_response: the value returned when the retriever answered
get_rag_response(query, tag, answer) == [answer |-> answer, query |-> query, concern_type |-> tag]

\* one call of get_rag_response as it is logged; category is the category
\* given to rag_service.ask_agent
RetrievalRec(query, tag, ok, answer) ==
    [query |-> query, concern_type |-> tag,
     category |-> IF Falsy(tag) THEN "general" ELSE tag, ok |-> ok, answer |-> answer]

\* search_result reporting a rephrasing whatever the rephrased query
search_result_AlwaysRephrased(query, rephrased_q, rag, summ) ==
    [original_query |-> query,
     rephrased_query |-> rephrased_q,
     rag_response |-> rag,
     final_response |-> summ.summary,
     pipeline_metadata |->
        [rephrasing_used |-> TRUE,
         rag_concern_type |-> Get(rag, "concern_type", None),
         summarization_agent_id |-> Get(summ, "summarizer_agent_id", None),
         has_error |-> "error" \in DOMAIN summ],
     full_pipeline_data |-> [rag_response |-> rag, summarized_response |-> summ]]

\* search_beauty_products: the value returned after the summarisation
search_result(query, rephrased_q, rag, summ) ==
    [original_query |-> query,
     rephrased_query |-> rephrased_q,
     rag_response |-> rag,
     final_response |-> summ.summary,
     pipeline_metadata |->
        [rephrasing_used |-> rephrased_q # query,
         rag_concern_type |-> Get(rag, "concern_type", None),
         summarization_agent_id |-> Get(summ, "summarizer_agent_id", None),
         has_error |-> "error" \in DOMAIN summ],
     full_pipeline_data |-> [rag_response |-> rag, summarized_response |-> summ]]

\* retry_result delivering no answer
retry_result_Unanswered(query, rag) ==
    [original_query |-> query,
     rephrased_query |-> query,
     rag_response |-> rag,
     final_response |-> <<>>,
     pipeline_metadata |->
        [rephrasing_used |-> FALSE,
         rag_concern_type |-> Get(rag, "concern_type", None),
         fallback_used |-> TRUE,
         error |-> "retrieval failed"]]

\* search_beauty_products: the value returned by the retrieval with the
\* original query
retry_result(query, rag) ==
    [original_query |-> query,
     rephrased_query |-> query,
     rag_response |-> rag,
     final_response |-> rag.answer,
     pipeline_metadata |->
        [rephrasing_used |-> FALSE,
         rag_concern_type |-> Get(rag, "concern_type", None),
         fallback_used |-> TRUE,
         error |-> "retrieval failed"]]

\* get_or_create_summarizer_agent resolving the classifier agent
get_or_create_summarizer_agent_Classifier == get_or_create(ClassifierName)

get_or_create_summarizer_agent == get_or_create(SummarizerName)

\* a caller invokes search_beauty_products(q, hint)
Call_search_beauty_products ==
    /\ Idle
    /\ served < MaxRequests
    /\ \E q \in SearchQueries : user_query' = q
    /\ \E hint \in ConcernHints : concern_type' = hint
    /\ op' = "search_beauty_products"
    /\ pc' = "rephraser_resolve"
    /\ status' = "running"
    /\ classify_status' = "none"
    /\ agent_id' = 0
    /\ response' = NoValue
    /\ classification' = NoValue
    /\ concern' = None
    /\ result' = NoValue
    /\ calls' = <<>>
    /\ served' = served + 1
    /\ rephrased' = NoValue
    /\ rag_response' = NoValue
    /\ summarized_response' = NoValue
    /\ retrievals' = <<>>
    /\ agent_ids' = NoValue
    /\ UNCHANGED <<agent_cache, runtime>>
    /\ UNCHANGED task_vars
    /\ UNCHANGED previous
    /\ UNCHANGED endpoint

\* tagged detecting the concern type in the rephrased query
tagged_Rephrased(hint, query) ==
    IF Falsy(hint) THEN detect_concern_type(rephrased) ELSE hint

\* tagged detecting the concern type in the first call served only
tagged_FirstCallOnly(hint, query) ==
    IF Falsy(hint) /\ served <= 1 THEN detect_concern_type(query) ELSE hint

\* search_beauty_products: the concern type given to the first retrieval
tagged(hint, query) == IF Falsy(hint) THEN detect_concern_type(query) ELSE hint

\* Retrieve handing the original query to the retriever
Retrieve_OriginalQuery ==
    /\ pc = "retrieve"
    /\ concern_type' = tagged(concern_type, user_query)
    /\ \E answer \in Answers :
        /\ retrievals' = Append(retrievals, RetrievalRec(user_query, concern_type', TRUE, answer))
        /\ rag_response' = get_rag_response(user_query, concern_type', answer)
    /\ pc' = "summarizer_resolve"
    /\ UNCHANGED <<agent_cache, runtime, op, user_query, agent_id, response, classify_status,
                   classification, concern, status, result, calls, served, rephrased,
                   summarized_response>>
    /\ UNCHANGED <<agent_ids, tasks, loop, created, previous, endpoint>>

\* search_beauty_products: the concern type is detected when none is given,
\* and get_rag_response(rephrased_query, concern_type) returns
Retrieve ==
    /\ pc = "retrieve"
    /\ concern_type' = tagged(concern_type, user_query)
    /\ \E answer \in Answers :
        /\ retrievals' = Append(retrievals, RetrievalRec(rephrased, concern_type', TRUE, answer))
        /\ rag_response' = get_rag_response(rephrased, concern_type', answer)
    /\ pc' = "summarizer_resolve"
    /\ UNCHANGED <<agent_cache, runtime, op, user_query, agent_id, response, classify_status,
                   classification, concern, status, result, calls, served, rephrased,
                   summarized_response>>
    /\ UNCHANGED <<agent_ids, tasks, loop, created, previous, endpoint>>

\* RetrieveFails with the failure propagated to the caller
RetrieveFails_Raises ==
    /\ pc = "retrieve"
    /\ concern_type' = tagged(concern_type, user_query)
    /\ retrievals' = Append(retrievals, RetrievalRec(rephrased, concern_type', FALSE, NoValue))
    /\ Raise
    /\ UNCHANGED <<agent_cache, runtime, op, user_query, agent_id, response, classify_status,
                   classification, concern, calls, served, rephrased, rag_response,
                   summarized_response>>
    /\ UNCHANGED <<agent_ids, tasks, loop, created, previous, endpoint>>

\* search_beauty_products: get_rag_response(rephrased_query, concern_type)
\* raises and the except branch is entered
RetrieveFails ==
    /\ pc = "retrieve"
    /\ concern_type' = tagged(concern_type, user_query)
    /\ retrievals' = Append(retrievals, RetrievalRec(rephrased, concern_type', FALSE, NoValue))
    /\ pc' = "retry"
    /\ UNCHANGED <<agent_cache, runtime, op, user_query, agent_id, response, classify_status,
                   classification, concern, status, result, calls, served, rephrased,
                   rag_response, summarized_response>>
    /\ UNCHANGED <<agent_ids, tasks, loop, created, previous, endpoint>>

\* summarize_response returns value and search_beauty_products returns its result
Summarized(value) ==
    /\ summarized_response' = value
    /\ Return(search_result(user_query, rephrased, rag_response, value))

\* SummarizerResolve with the failure propagated into the except branch of
\* search_beauty_products
SummarizerResolve_Raises ==
    /\ pc = "summarizer_resolve"
    /\ \E out \in get_or_create_summarizer_agent :
        /\ Resolved(out)
        /\ IF out.ok
           THEN /\ agent_id' = out.id
                /\ pc' = "summarizer_send"
                /\ UNCHANGED <<status, result, summarized_response>>
           ELSE /\ pc' = "retry"
                /\ UNCHANGED <<agent_id, status, result, summarized_response>>
    /\ UNCHANGED <<op, user_query, response, classify_status, classification, concern, served,
                   concern_type, rephrased, rag_response, retrievals>>
    /\ UNCHANGED <<agent_ids, tasks, loop, created, previous, endpoint>>

\* summarize_response: summarizer_id = await self.get_or_create_summarizer_agent();
\* when that raises, the answer is returned as the summary
SummarizerResolve ==
    /\ pc = "summarizer_resolve"
    /\ \E out \in get_or_create_summarizer_agent :
        /\ Resolved(out)
        /\ IF out.ok
           THEN /\ agent_id' = out.id
                /\ pc' = "summarizer_send"
                /\ UNCHANGED <<status, result, summarized_response>>
           ELSE /\ Summarized(summarize_failed(rag_response.answer, user_query))
                /\ UNCHANGED agent_id
    /\ UNCHANGED <<op, user_query, response, classify_status, classification, concern, served,
                   concern_type, rephrased, rag_response, retrievals>>
    /\ UNCHANGED <<agent_ids, tasks, loop, created, previous, endpoint>>

\* SummarizerSendFails with the failure propagated into the except branch of
\* search_beauty_products
SummarizerSendFails_Raises ==
    /\ pc = "summarizer_send"
    /\ calls' = Append(calls, SendRec(agent_id, FALSE))
    /\ pc' = "retry"
    /\ UNCHANGED <<agent_cache, runtime, op, user_query, agent_id, response, classify_status,
                   classification, concern, status, result, served, concern_type, rephrased,
                   rag_response, summarized_response, retrievals>>
    /\ UNCHANGED <<agent_ids, tasks, loop, created, previous, endpoint>>

\* summarize_response: the exchange with the summarizer agent fails and the
\* answer is returned as the summary
SummarizerSendFails ==
    /\ pc = "summarizer_send"
    /\ calls' = Append(calls, SendRec(agent_id, FALSE))
    /\ Summarized(summarize_failed(rag_response.answer, user_query))
    /\ UNCHANGED <<agent_cache, runtime, op, user_query, agent_id, response, classify_status,
                   classification, concern, served, concern_type, rephrased, rag_response,
                   retrievals>>
    /\ UNCHANGED <<agent_ids, tasks, loop, created, previous, endpoint>>

\* summarize_response: the summarizer agent replies
SummarizerReply ==
    /\ pc = "summarizer_send"
    /\ calls' = Append(calls, SendRec(agent_id, TRUE))
    /\ \E reply \in SummarizerResponses :
        Summarized(summarized(rag_response.answer, user_query, reply, agent_id))
    /\ UNCHANGED <<agent_cache, runtime, op, user_query, agent_id, response, classify_status,
                   classification, concern, served, concern_type, rephrased, rag_response,
                   retrievals>>
    /\ UNCHANGED <<agent_ids, tasks, loop, created, previous, endpoint>>

\* RetryRetrieve repeating the first retrieval, rephrased query and concern type
RetryRetrieve_Tagged ==
    /\ pc = "retry"
    /\ \E answer \in Answers :
        /\ retrievals' = Append(retrievals, RetrievalRec(rephrased, concern_type, TRUE, answer))
        /\ rag_response' = get_rag_response(rephrased, concern_type, answer)
    /\ Return(retry_result(user_query, rag_response'))
    /\ UNCHANGED <<agent_cache, runtime, op, user_query, agent_id, response, classify_status,
                   classification, concern, calls, served, concern_type, rephrased,
                   summarized_response>>
    /\ UNCHANGED <<agent_ids, tasks, loop, created, previous, endpoint>>

\* search_beauty_products, except branch: get_rag_response(query) returns
RetryRetrieve ==
    /\ pc = "retry"
    /\ \E answer \in Answers :
        /\ retrievals' = Append(retrievals, RetrievalRec(user_query, None, TRUE, answer))
        /\ rag_response' = get_rag_response(user_query, None, answer)
    /\ Return(retry_result(user_query, rag_response'))
    /\ UNCHANGED <<agent_cache, runtime, op, user_query, agent_id, response, classify_status,
                   classification, concern, calls, served, concern_type, rephrased,
                   summarized_response>>
    /\ UNCHANGED <<agent_ids, tasks, loop, created, previous, endpoint>>

\* search_beauty_products, except branch: get_rag_response(query) raises and
\* RuntimeError is raised
RetryRetrieveFails ==
    /\ pc = "retry"
    /\ retrievals' = Append(retrievals, RetrievalRec(user_query, None, FALSE, NoValue))
    /\ Raise
    /\ UNCHANGED <<agent_cache, runtime, op, user_query, agent_id, response, classify_status,
                   classification, concern, calls, served, concern_type, rephrased,
                   rag_response, summarized_response>>
    /\ UNCHANGED <<agent_ids, tasks, loop, created, previous, endpoint>>

InitSearch ==
    /\ agent_cache = EmptyDict
    /\ runtime \in InitialRuntimes({RephraserName, SummarizerName})
    /\ op = "none"
    /\ pc = "idle"
    /\ user_query = <<>>
    /\ agent_id = 0
    /\ response = NoValue
    /\ classify_status = "none"
    /\ classification = NoValue
    /\ concern = None
    /\ status = "none"
    /\ result = NoValue
    /\ calls = <<>>
    /\ served = 0
    /\ concern_type = None
    /\ rephrased = NoValue
    /\ rag_response = NoValue
    /\ summarized_response = NoValue
    /\ retrievals = <<>>
    /\ agent_ids = NoValue
    /\ tasks = <<>>
    /\ loop = 0
    /\ created = <<>>
    /\ previous = NoValue
    /\ endpoint = NoEndpoint

\* the steps of a call of search_beauty_products in progress
SearchStep ==
    \/ RephraserResolve
    \/ RephraserSendFails
    \/ RephraserReply
    \/ Retrieve
    \/ RetrieveFails
    \/ SummarizerResolve
    \/ SummarizerSendFails
    \/ SummarizerReply
    \/ RetryRetrieve
    \/ RetryRetrieveFails

NextSearch ==
    \/ Call_search_beauty_products
    \/ SearchStep

SpecSearch == InitSearch /\ [][NextSearch]_vars

\* a runtime holding no agent yet
InitSearchFair == InitSearch /\ runtime = <<>>

\* every call made by search_beauty_products returns or raises
SpecSearchFair == InitSearchFair /\ [][NextSearch]_vars /\ WF_vars(SearchStep)

----------------------------------------------------------------------------
(* search_beauty_products called again with the same query, its collaborators
   being deterministic: client.agents.messages.create gives the same outcome
   for the same agent and message, rag_service.ask_agent the same outcome for
   the same question and category *)

\* the exchanges with the agent named agent_name in a log of calls
SendsOf(log, agent_name) ==
    {i \in 1..Len(log) : log[i].call = "send" /\ log[i].name = agent_name}

\* what the call in progress asked of its collaborators and what it got
Exchanges ==
    [user_query |-> user_query, calls |-> calls, response |-> response,
     retrievals |-> retrievals, summarized_response |-> summarized_response,
     status |-> status, result |-> result]

\* rephrase_query: the message sent is built from the query alone, so two
\* exchanges with the same rephraser agent about the same query are the same
\* request
SameRephrasing(a, b) ==
    \A i \in SendsOf(a.calls, RephraserName) : \A j \in SendsOf(b.calls, RephraserName) :
        (a.calls[i].id = b.calls[j].id /\ a.user_query = b.user_query) =>
            /\ a.calls[i].ok = b.calls[j].ok
            /\ a.calls[i].ok => a.response = b.response

\* get_rag_response: rag_service.ask_agent(query, concern_type or "general")
SameRetrieval(a, b) ==
    \A i \in 1..Len(a.retrievals) : \A j \in 1..Len(b.retrievals) :
        (/\ a.retrievals[i].query = b.retrievals[j].query
         /\ a.retrievals[i].category = b.retrievals[j].category) =>
            /\ a.retrievals[i].ok = b.retrievals[j].ok
            /\ a.retrievals[i].ok => a.retrievals[i].answer = b.retrievals[j].answer

\* summarize_response: the message sent is built from the original query and
\* the answer to summarize
SameSummary(a, b) ==
    \A i \in SendsOf(a.calls, SummarizerName) : \A j \in SendsOf(b.calls, SummarizerName) :
        (/\ a.calls[i].id = b.calls[j].id
         /\ a.user_query = b.user_query
         /\ a.summarized_response.original_rag_response
                = b.summarized_response.original_rag_response) =>
            /\ a.calls[i].ok = b.calls[j].ok
            /\ a.calls[i].ok => a.summarized_response.summary = b.summarized_response.summary

\* the collaborators answered the same request in the same way, within the
\* call in progress and between it and the call before
StubsDeterministic ==
    /\ SameRetrieval(Exchanges, Exchanges)
    /\ previous # NoValue =>
        /\ SameRephrasing(previous, Exchanges)
        /\ SameRetrieval(previous, Exchanges)
        /\ SameSummary(previous, Exchanges)

\* the first call of search_beauty_products
Call_search_beauty_products_first ==
    /\ served = 0
    /\ Call_search_beauty_products

\* search_beauty_products is called again with the query of the call that
\* just ended and a concern_type that gives the same concern type
Call_search_beauty_products_again ==
    /\ op = "search_beauty_products"
    /\ pc = "done"
    /\ served < MaxRequests
    /\ previous' = Exchanges
    /\ \E hint \in ConcernHints :
        /\ tagged(hint, user_query) = retrievals[1].concern_type
        /\ concern_type' = hint
    /\ pc' = "rephraser_resolve"
    /\ status' = "running"
    /\ classify_status' = "none"
    /\ agent_id' = 0
    /\ response' = NoValue
    /\ classification' = NoValue
    /\ concern' = None
    /\ result' = NoValue
    /\ calls' = <<>>
    /\ served' = served + 1
    /\ rephrased' = NoValue
    /\ rag_response' = NoValue
    /\ summarized_response' = NoValue
    /\ retrievals' = <<>>
    /\ agent_ids' = NoValue
    /\ UNCHANGED <<agent_cache, runtime, op, user_query>>
    /\ UNCHANGED task_vars
    /\ UNCHANGED endpoint

\* a step of search_beauty_products with deterministic collaborators
StubbedSearchStep ==
    /\ SearchStep
    /\ StubsDeterministic'

NextSearchStubbed ==
    \/ Call_search_beauty_products_first
    \/ Call_search_beauty_products_again
    \/ StubbedSearchStep

SpecSearchStubbed == InitSearch /\ [][NextSearchStubbed]_vars

----------------------------------------------------------------------------
(* The agents: create_agent, delete_agent, get_or_create_*, initialize_agent_system *)

\* the place in the runtime of an agent that was deleted
Deleted == "<deleted>"

\* the names given to create_agent
AgentNames == {ClassifierName, "custom_agent"}

\* the order of class BeautyConcern
concerns == <<"acne", "aging", "sensitivity", "dryness", "oiliness", "hyperpigmentation", "general">>

\* initialize_agent_system: the keys of agent_ids and the agents they name, in
\* the order they are resolved
InitRoles ==
    <<[key |-> "classifier", name |-> ClassifierName],
      [key |-> "rephraser", name |-> RephraserName],
      [key |-> "summarizer", name |-> SummarizerName]>>
    \o [i \in 1..Len(concerns) |->
            [key |-> "specialist_" \o concerns[i], name |-> ConcernAgentName(concerns[i])]]

\* the get_or_create_* functions without argument and the agent each resolves
GetOrCreateName ==
    [get_or_create_classifier_agent |-> ClassifierName,
     get_or_create_rephraser_agent |-> RephraserName,
     get_or_create_summarizer_agent |-> SummarizerName]

\* the agent name resolved by the get_or_create_* function f called with concern c
NameResolved(f, c) ==
    IF f = "get_or_create_concern_agent" THEN ConcernAgentName(c) ELSE GetOrCreateName[f]

\* a caller begins call f, which is over after one step
Begin(f) ==
    /\ Idle
    /\ served < MaxRequests
    /\ op' = f
    /\ served' = served + 1
    /\ user_query' = <<>>
    /\ classify_status' = "none"
    /\ response' = NoValue
    /\ classification' = NoValue
    /\ UNCHANGED search_locals
    /\ UNCHANGED task_vars
    /\ UNCHANGED previous
    /\ UNCHANGED endpoint

\* LettaAgent.create_agent(name, ...): the runtime creates an agent, whose id
\* is cached under name, or the call raises
\* create_agent returning the new agent without caching its id
Call_create_agent_Uncached ==
    /\ Begin("create_agent")
    /\ \E name \in AgentNames :
        \/ /\ runtime' = Append(runtime, name)
           /\ calls' = <<CallRec("create", name, Len(runtime) + 1, TRUE)>>
           /\ agent_id' = Len(runtime) + 1
           /\ Return([id |-> Len(runtime) + 1, name |-> name])
           /\ UNCHANGED agent_cache
        \/ /\ calls' = <<CallRec("create", name, 0, FALSE)>>
           /\ agent_id' = 0
           /\ Raise
           /\ UNCHANGED <<agent_cache, runtime>>
    /\ concern' = None
    /\ agent_ids' = NoValue

Call_create_agent ==
    /\ Begin("create_agent")
    /\ \E name \in AgentNames :
        \/ /\ runtime' = Append(runtime, name)
           /\ agent_cache' = (name :> (Len(runtime) + 1)) @@ agent_cache
           /\ calls' = <<CallRec("create", name, Len(runtime) + 1, TRUE)>>
           /\ agent_id' = Len(runtime) + 1
           /\ Return([id |-> Len(runtime) + 1, name |-> name])
        \/ /\ calls' = <<CallRec("create", name, 0, FALSE)>>
           /\ agent_id' = 0
           /\ Raise
           /\ UNCHANGED <<agent_cache, runtime>>
    /\ concern' = None
    /\ agent_ids' = NoValue

\* LettaAgent.delete_agent(agent_id): the runtime deletes the agent, or the
\* call raises
\* delete_agent dropping the cache entries of the agent deleted
Call_delete_agent_Evicts ==
    /\ Begin("delete_agent")
    /\ \E id \in {i \in 1..Len(runtime) : runtime[i] # Deleted} :
        /\ agent_id' = id
        /\ \/ /\ runtime' = [runtime EXCEPT ![id] = Deleted]
              /\ agent_cache' = [n \in {m \in DOMAIN agent_cache : agent_cache[m] # id}
                                    |-> agent_cache[n]]
              /\ calls' = <<CallRec("delete", runtime[id], id, TRUE)>>
              /\ Return(TRUE)
           \/ /\ calls' = <<CallRec("delete", runtime[id], id, FALSE)>>
              /\ Raise
              /\ UNCHANGED <<agent_cache, runtime>>
    /\ concern' = None
    /\ agent_ids' = NoValue

Call_delete_agent ==
    /\ Begin("delete_agent")
    /\ \E id \in {i \in 1..Len(runtime) : runtime[i] # Deleted} :
        /\ agent_id' = id
        /\ \/ /\ runtime' = [runtime EXCEPT ![id] = Deleted]
              /\ calls' = <<CallRec("delete", runtime[id], id, TRUE)>>
              /\ Return(TRUE)
           \/ /\ calls' = <<CallRec("delete", runtime[id], id, FALSE)>>
              /\ Raise
              /\ UNCHANGED runtime
    /\ concern' = None
    /\ agent_ids' = NoValue
    /\ UNCHANGED agent_cache

\* the call f of get_or_create for the agent named agent_name
GetOrCreate(f, agent_name) ==
    /\ Begin(f)
    /\ \E out \in get_or_create(agent_name) :
        /\ agent_cache' = out.cache
        /\ runtime' = out.runtime
        /\ calls' = out.log
        /\ agent_id' = out.id
        /\ IF out.ok THEN Return(out.id) ELSE Raise
    /\ agent_ids' = NoValue

\* get_or_create_classifier_agent(), get_or_create_rephraser_agent(),
\* get_or_create_summarizer_agent()
Call_get_or_create_agent ==
    \E f \in DOMAIN GetOrCreateName :
        /\ GetOrCreate(f, GetOrCreateName[f])
        /\ concern' = None

\* get_or_create_concern_agent(c)
Call_get_or_create_concern_agent ==
    \E c \in BeautyConcern :
        /\ GetOrCreate("get_or_create_concern_agent", ConcernAgentName(c))
        /\ concern' = c

\* a caller invokes initialize_agent_system()
Call_initialize_agent_system ==
    /\ Idle
    /\ served < MaxRequests
    /\ op' = "initialize_agent_system"
    /\ pc' = "initialize"
    /\ status' = "running"
    /\ served' = served + 1
    /\ user_query' = <<>>
    /\ classify_status' = "none"
    /\ agent_id' = 0
    /\ response' = NoValue
    /\ classification' = NoValue
    /\ concern' = None
    /\ result' = NoValue
    /\ calls' = <<>>
    /\ agent_ids' = EmptyDict
    /\ UNCHANGED <<agent_cache, runtime>>
    /\ UNCHANGED search_locals
    /\ UNCHANGED task_vars
    /\ UNCHANGED previous
    /\ UNCHANGED endpoint

\* InitializeResolve returning the agents resolved so far when one fails
InitializeResolve_Partial ==
    /\ pc = "initialize"
    /\ LET role == InitRoles[Cardinality(DOMAIN agent_ids) + 1]
       IN  \E out \in get_or_create(role.name) :
            /\ Resolved(out)
            /\ IF out.ok
               THEN /\ agent_ids' = (role.key :> out.id) @@ agent_ids
                    /\ agent_id' = out.id
                    /\ IF Cardinality(DOMAIN agent_ids') = Len(InitRoles)
                       THEN Return(agent_ids')
                       ELSE UNCHANGED <<pc, status, result>>
               ELSE /\ Return(agent_ids)
                    /\ UNCHANGED <<agent_ids, agent_id>>
    /\ UNCHANGED <<op, user_query, response, classify_status, classification, concern, served>>
    /\ UNCHANGED search_locals
    /\ UNCHANGED task_vars
    /\ UNCHANGED previous
    /\ UNCHANGED endpoint

\* initialize_agent_system: the next agent is resolved and its id put in
\* agent_ids; agent_ids is returned after the last one; a failure raises
InitializeResolve ==
    /\ pc = "initialize"
    /\ LET role == InitRoles[Cardinality(DOMAIN agent_ids) + 1]
       IN  \E out \in get_or_create(role.name) :
            /\ Resolved(out)
            /\ IF out.ok
               THEN /\ agent_ids' = (role.key :> out.id) @@ agent_ids
                    /\ agent_id' = out.id
                    /\ IF Cardinality(DOMAIN agent_ids') = Len(InitRoles)
                       THEN Return(agent_ids')
                       ELSE UNCHANGED <<pc, status, result>>
               ELSE /\ Raise
                    /\ UNCHANGED <<agent_ids, agent_id>>
    /\ UNCHANGED <<op, user_query, response, classify_status, classification, concern, served>>
    /\ UNCHANGED search_locals
    /\ UNCHANGED task_vars
    /\ UNCHANGED previous
    /\ UNCHANGED endpoint

InitAgents ==
    /\ agent_cache = EmptyDict
    /\ runtime \in InitialRuntimes({ClassifierName, RephraserName})
    /\ op = "none"
    /\ pc = "idle"
    /\ user_query = <<>>
    /\ agent_id = 0
    /\ response = NoValue
    /\ classify_status = "none"
    /\ classification = NoValue
    /\ concern = None
    /\ status = "none"
    /\ result = NoValue
    /\ calls = <<>>
    /\ served = 0
    /\ concern_type = None
    /\ rephrased = NoValue
    /\ rag_response = NoValue
    /\ summarized_response = NoValue
    /\ retrievals = <<>>
    /\ agent_ids = NoValue
    /\ tasks = <<>>
    /\ loop = 0
    /\ created = <<>>
    /\ previous = NoValue
    /\ endpoint = NoEndpoint

NextAgents ==
    \/ Call_create_agent
    \/ Call_delete_agent
    \/ Call_get_or_create_agent
    \/ Call_get_or_create_concern_agent
    \/ Call_initialize_agent_system
    \/ InitializeResolve

SpecAgents == InitAgents /\ [][NextAgents]_vars

----------------------------------------------------------------------------
(* Concurrent requests on the event loop *)

\* the requests that resolve agents, each with the agent names it resolves,
\* in order; the concern of process_beauty_request is the classifier's
TaskKinds ==
    {[kind |-> "process_beauty_request", roles |-> <<ClassifierName, ConcernAgentName(c)>>]
        : c \in {"acne", "general"}}
    \cup {[kind |-> "initialize_agent_system",
           roles |-> [i \in 1..Len(InitRoles) |-> InitRoles[i].name]]}
    \cup {[kind |-> "search_beauty_products", roles |-> <<RephraserName, SummarizerName>>]}

\* a request suspended between looking an agent up and creating it
Suspended_AtCreate(task) == task.pc = "create"

\* a request is suspended only at an await that does not complete at once;
\* every await of a request is on a coroutine that calls the synchronous
\* client, so no request is ever suspended before it is over
Suspended(task) == FALSE

\* the event loop can run a step of task t
Runnable(t) == IF loop \in {0, t} THEN TRUE ELSE Suspended(tasks[loop])

\* task t goes on with the next agent, or is over
Advance(t, outcome) ==
    LET rest == Tail(tasks[t].roles)
    IN  /\ tasks' = [tasks EXCEPT ![t] =
                        [@ EXCEPT !.roles = rest,
                                  !.pc = IF rest = <<>> THEN "done" ELSE "lookup",
                                  !.status = IF rest = <<>> THEN outcome ELSE "running"]]
        /\ loop' = IF rest = <<>> THEN 0 ELSE t

\* resolving an agent raised in task t: rephrase_query and
\* summarize_response go on without the agent, the other requests raise
Failed(t) ==
    IF tasks[t].kind = "search_beauty_products"
    THEN Advance(t, "returned")
    ELSE /\ tasks' = [tasks EXCEPT ![t] = [@ EXCEPT !.pc = "done", !.status = "raised"]]
         /\ loop' = 0

\* get_or_create_* in task t, up to create_agent: the cache is looked up,
\* then the agents are listed
TaskLookup(t) ==
    /\ Runnable(t)
    /\ tasks[t].pc \in {"waiting", "lookup"}
    /\ LET agent_name == Head(tasks[t].roles)
       IN  IF agent_name \in DOMAIN agent_cache
           THEN Advance(t, "returned") /\ UNCHANGED agent_cache
           ELSE \/ Failed(t) /\ UNCHANGED agent_cache
                \/ /\ Listed(agent_name) # {}
                   /\ \E i \in Listed(agent_name) : agent_cache' = (agent_name :> i) @@ agent_cache
                   /\ Advance(t, "returned")
                \/ /\ Listed(agent_name) = {}
                   /\ tasks' = [tasks EXCEPT ![t] = [@ EXCEPT !.pc = "create"]]
                   /\ loop' = t
                   /\ UNCHANGED agent_cache
    /\ UNCHANGED <<runtime, created>>

\* get_or_create_* in task t: create_agent creates the agent and caches its
\* id, or raises
TaskCreate(t) ==
    /\ Runnable(t)
    /\ tasks[t].pc = "create"
    /\ LET agent_name == Head(tasks[t].roles)
       IN  \/ /\ runtime' = Append(runtime, agent_name)
              /\ agent_cache' = (agent_name :> (Len(runtime) + 1)) @@ agent_cache
              /\ created' = Append(created, agent_name)
              /\ Advance(t, "returned")
           \/ /\ Failed(t)
              /\ UNCHANGED <<agent_cache, runtime, created>>

\* an exchange with an agent or the retrieval raises in task t, which is
\* over before it resolves its next agent
TaskExchangeFails(t) ==
    /\ Runnable(t)
    /\ tasks[t].pc = "lookup"
    /\ tasks[t].kind # "initialize_agent_system"
    /\ tasks' = [tasks EXCEPT ![t] = [@ EXCEPT !.pc = "done", !.status = "raised"]]
    /\ loop' = 0
    /\ UNCHANGED <<agent_cache, runtime, created>>

\* the variables of the one call in progress, left alone by the concurrent requests
call_vars ==
    <<op, pc, user_query, agent_id, response, classify_status, classification, concern, status,
      result, calls, served, agent_ids, previous, endpoint>>

Lookup == \E t \in 1..Len(tasks) : TaskLookup(t) /\ UNCHANGED call_vars /\ UNCHANGED search_locals

Create == \E t \in 1..Len(tasks) : TaskCreate(t) /\ UNCHANGED call_vars /\ UNCHANGED search_locals

ExchangeFails ==
    \E t \in 1..Len(tasks) : TaskExchangeFails(t) /\ UNCHANGED call_vars /\ UNCHANGED search_locals

InitConcurrent ==
    /\ agent_cache = EmptyDict
    /\ runtime \in InitialRuntimes({ClassifierName})
    /\ op = "none"
    /\ pc = "idle"
    /\ user_query = <<>>
    /\ agent_id = 0
    /\ response = NoValue
    /\ classify_status = "none"
    /\ classification = NoValue
    /\ concern = None
    /\ status = "none"
    /\ result = NoValue
    /\ calls = <<>>
    /\ served = 0
    /\ concern_type = None
    /\ rephrased = NoValue
    /\ rag_response = NoValue
    /\ summarized_response = NoValue
    /\ retrievals = <<>>
    /\ agent_ids = NoValue
    /\ tasks \in [1..MaxTasks ->
                    {[kind |-> k.kind, roles |-> k.roles, pc |-> "waiting", status |-> "running"]
                        : k \in TaskKinds}]
    /\ loop = 0
    /\ created = <<>>
    /\ previous = NoValue
    /\ endpoint = NoEndpoint

NextConcurrent ==
    \/ Lookup
    \/ Create
    \/ ExchangeFails

SpecConcurrent == InitConcurrent /\ [][NextConcurrent]_vars

----------------------------------------------------------------------------
(* process_beauty_request and search_beauty_products on a runtime holding no agent *)

InitRequests == Init /\ runtime = <<>>

NextRequests ==
    \/ Call_process_beauty_request
    \/ ClassifierResolve
    \/ ClassifierSendFails
    \/ ClassifierReply
    \/ Dispatch
    \/ SpecialistSendFails
    \/ SpecialistReply
    \/ NextSearch

SpecRequests == InitRequests /\ [][NextRequests]_vars

----------------------------------------------------------------------------
(* delete_agent in a process that has served requests *)

\* the caches a process may hold for the runtime rt: every cached id is the id
\* of an agent of rt bearing the name it is cached under
CachesOf(rt) ==
    UNION {{c \in [names -> 1..Len(rt)] : \A n \in names : rt[c[n]] = n}
            : names \in SUBSET {rt[i] : i \in 1..Len(rt)}}

InitCached ==
    /\ runtime \in InitialRuntimes({ClassifierName})
    /\ agent_cache \in CachesOf(runtime)
    /\ op = "none"
    /\ pc = "idle"
    /\ user_query = <<>>
    /\ agent_id = 0
    /\ response = NoValue
    /\ classify_status = "none"
    /\ classification = NoValue
    /\ concern = None
    /\ status = "none"
    /\ result = NoValue
    /\ calls = <<>>
    /\ served = 0
    /\ concern_type = None
    /\ rephrased = NoValue
    /\ rag_response = NoValue
    /\ summarized_response = NoValue
    /\ retrievals = <<>>
    /\ agent_ids = NoValue
    /\ tasks = <<>>
    /\ loop = 0
    /\ created = <<>>
    /\ previous = NoValue
    /\ endpoint = NoEndpoint

NextDeletion ==
    \/ Call_delete_agent
    \/ Call_get_or_create_agent
    \/ Call_get_or_create_concern_agent
    \/ Call_process_beauty_request
    \/ ClassifierResolve
    \/ ClassifierSendFails
    \/ ClassifierReply
    \/ Dispatch
    \/ SpecialistSendFails
    \/ SpecialistReply

SpecDeletion == InitCached /\ [][NextDeletion]_vars

----------------------------------------------------------------------------
(* process_multi_agent_request, the endpoint POST /multi-agent/process *)

\* the force_concern of a MultiAgentRequest
ForceConcerns == {None, "aging"}

\* the names the endpoints module imports from app.schemas.letta
EndpointImports ==
    {"AgentCreateRequest", "AgentResponse", "AgentListResponse", "ChatRequest", "ChatResponse",
     "MessageListResponse", "ErrorResponse", "SearchRequest", "SearchResponse",
     "ProductRecommendation", "ClassificationRequest", "ClassificationResponse",
     "MultiAgentRequest", "MultiAgentResponse", "AgentSystemStatus", "RAGSearchRequest",
     "RAGSearchResponse", "AgentInitializationRequest", "AgentInitializationResponse"}

\* process_multi_agent_request: the MultiAgentResponse built from the result
\* of process_beauty_request; total_processing_time is left out
multi_agent_response(res) ==
    LET cl == Get(res, "classification", EmptyDict)
        sp == Get(res, "specialist_response", EmptyDict)
    IN  [classification |->
            [request_type |-> Get(cl, "request_type", "general_beauty"),
             beauty_concern |-> Get(cl, "beauty_concern", "general"),
             confidence |-> Get(cl, "confidence", "0.5"),
             reasoning |-> Get(cl, "reasoning", ""),
             suggested_agent |-> Get(cl, "suggested_agent", ""),
             raw_response |-> Get(cl, "raw_response", "")],
         specialist_response |->
            [agent_id |-> Get(sp, "agent_id", ""),
             concern |-> Get(sp, "concern", "general"),
             response |-> Get(sp, "response", EmptyDict),
             reasoning_steps |-> <<>>,
             recommendations |-> <<>>,
             confidence |-> "0.8"],
         pipeline |-> Get(res, "pipeline", "multi_agent_react"),
         agents_involved |-> <<Get(cl, "suggested_agent", ""), Get(sp, "agent_id", "")>>]

\* a client posts a MultiAgentRequest and process_multi_agent_request calls
\* process_beauty_request(request.query)
Call_process_multi_agent_request ==
    /\ Idle
    /\ served < MaxRequests
    /\ \E q \in Queries : user_query' = q
    /\ \E force_concern \in ForceConcerns :
        endpoint' = [request |-> [query |-> user_query', force_concern |-> force_concern],
                     response |-> NoValue]
    /\ op' = "process_beauty_request"
    /\ pc' = "classifier_resolve"
    /\ status' = "running"
    /\ classify_status' = "running"
    /\ agent_id' = 0
    /\ response' = NoValue
    /\ classification' = NoValue
    /\ concern' = None
    /\ result' = NoValue
    /\ calls' = <<>>
    /\ served' = served + 1
    /\ concern_type' = None
    /\ rephrased' = NoValue
    /\ rag_response' = NoValue
    /\ summarized_response' = NoValue
    /\ retrievals' = <<>>
    /\ agent_ids' = NoValue
    /\ UNCHANGED <<agent_cache, runtime>>
    /\ UNCHANGED task_vars
    /\ UNCHANGED previous

\* process_multi_agent_request: process_beauty_request is over; the response
\* is built, which needs the names ClassificationResponse, SpecialistResponse
\* and MultiAgentResponse, and any exception is answered by HTTPException 500
Respond_process_multi_agent_request ==
    /\ endpoint.request # NoValue
    /\ endpoint.response = NoValue
    /\ pc = "done"
    /\ endpoint' =
        [endpoint EXCEPT !.response =
            IF /\ status = "returned"
               /\ {"ClassificationResponse", "SpecialistResponse", "MultiAgentResponse"}
                    \subseteq EndpointImports
            THEN [status_code |-> 200, body |-> multi_agent_response(result)]
            ELSE [status_code |-> 500]]
    /\ UNCHANGED <<agent_cache, runtime, op, pc, user_query, agent_id, response, classify_status,
                   classification, concern, status, result, calls, served>>
    /\ UNCHANGED search_locals
    /\ UNCHANGED <<agent_ids, tasks, loop, created, previous>>

NextEndpoint ==
    \/ Call_process_multi_agent_request
    \/ ClassifierResolve
    \/ ClassifierSendFails
    \/ ClassifierReply
    \/ Dispatch
    \/ SpecialistSendFails
    \/ SpecialistReply
    \/ Respond_process_multi_agent_request

SpecEndpoint == InitRequests /\ [][NextEndpoint]_vars

----------------------------------------------------------------------------
(* get_available_agents *)

MaxListed == 3   \* most agents in the runtime when get_available_agents is called

\* the names of the agents the runtime holds: agents of the system and agents
\* created under another name through create_agent
ListedNames ==
    {ClassifierName, ConcernAgentName("acne"), ConcernAgentName("general"), RephraserName,
     "custom_agent", "packaging_agent"}

\* the characters of the agent names and of the words looked for in them
Spelling ==
    ("beauty_classifier_agent" :> Text(<<"b", "e", "a", "u", "t", "y", "_", "c", "l", "a", "s", "s", "i", "f", "i", "e", "r", "_", "a", "g", "e", "n", "t">>)) @@
    ("beauty_acne_agent" :> Text(<<"b", "e", "a", "u", "t", "y", "_", "a", "c", "n", "e", "_", "a", "g", "e", "n", "t">>)) @@
    ("beauty_general_agent" :> Text(<<"b", "e", "a", "u", "t", "y", "_", "g", "e", "n", "e", "r", "a", "l", "_", "a", "g", "e", "n", "t">>)) @@
    ("beauty_query_rephraser_agent" :> Text(<<"b", "e", "a", "u", "t", "y", "_", "q", "u", "e", "r", "y", "_", "r", "e", "p", "h", "r", "a", "s", "e", "r", "_", "a", "g", "e", "n", "t">>)) @@
    ("custom_agent" :> Text(<<"c", "u", "s", "t", "o", "m", "_", "a", "g", "e", "n", "t">>)) @@
    ("packaging_agent" :> Text(<<"p", "a", "c", "k", "a", "g", "i", "n", "g", "_", "a", "g", "e", "n", "t">>)) @@
    ("classifier" :> Text(<<"c", "l", "a", "s", "s", "i", "f", "i", "e", "r">>)) @@
    ("acne" :> Text(<<"a", "c", "n", "e">>)) @@
    ("aging" :> Text(<<"a", "g", "i", "n", "g">>)) @@
    ("sensitivity" :> Text(<<"s", "e", "n", "s", "i", "t", "i", "v", "i", "t", "y">>)) @@
    ("dryness" :> Text(<<"d", "r", "y", "n", "e", "s", "s">>)) @@
    ("oiliness" :> Text(<<"o", "i", "l", "i", "n", "e", "s", "s">>)) @@
    ("hyperpigmentation" :> Text(<<"h", "y", "p", "e", "r", "p", "i", "g", "m", "e", "n", "t", "a", "t", "i", "o", "n">>)) @@
    ("general" :> Text(<<"g", "e", "n", "e", "r", "a", "l">>))

\* `word in name`
NameContains(name, word) == contains(Spelling[name], Spelling[word])

\* LettaAgent.list_agents: the names of the agents of the runtime
list_agents == SelectSeq(runtime, LAMBDA n : n # Deleted)

\* get_available_agents: the group an agent is appended to
group_of(name) ==
    IF NameContains(name, "classifier") THEN "classifier"
    ELSE IF \E c \in BeautyConcern : NameContains(name, c) THEN "specialists"
    ELSE "general"

\* get_available_agents: the value returned for the agents listed
get_available_agents(agents) ==
    [classifier |-> SelectSeq(agents, LAMBDA n : group_of(n) = "classifier"),
     specialists |-> SelectSeq(agents, LAMBDA n : group_of(n) = "specialists"),
     general |-> SelectSeq(agents, LAMBDA n : group_of(n) = "general")]

\* a caller invokes get_available_agents(); list_agents returns or raises
Call_get_available_agents ==
    /\ Begin("get_available_agents")
    /\ \/ /\ calls' = <<CallRec("list", "", 0, TRUE)>>
          /\ Return(get_available_agents(list_agents))
       \/ /\ calls' = <<CallRec("list", "", 0, FALSE)>>
          /\ Raise
    /\ agent_id' = 0
    /\ concern' = None
    /\ agent_ids' = NoValue
    /\ UNCHANGED <<agent_cache, runtime>>

\* the runtime gains an agent, created by another client of the runtime
RuntimeGains ==
    /\ Idle
    /\ Len(runtime) < MaxListed
    /\ \E name \in ListedNames : runtime' = Append(runtime, name)
    /\ UNCHANGED <<agent_cache, op, pc, user_query, agent_id, response, classify_status,
                   classification, concern, status, result, calls, served>>
    /\ UNCHANGED search_locals
    /\ UNCHANGED <<agent_ids, tasks, loop, created, previous, endpoint>>

NextAvailable ==
    \/ Call_get_available_agents
    \/ RuntimeGains

SpecAvailable == InitRequests /\ [][NextAvailable]_vars

----------------------------------------------------------------------------
(* search_beauty_knowledge_base, the tool given to the specialist agents *)

\* the concern types a caller of the tool gives: none, the empty string, a
\* member of BeautyConcern and a value outside it
ToolConcerns == {None, "", "aging", "rosacea"}

\* search_beauty_knowledge_base: a concern type that is given (`if concern_type`)
\* and for which BeautyConcern(concern_type) raises ValueError becomes None
validated(tag) ==
    IF Falsy(tag) THEN tag
    ELSE IF tag \in BeautyConcern THEN tag ELSE None

\* _extract_recommendations: one recommendation for each knowledge item; the
\* brand and the ingredients found in an item are left out
extract_recommendations(knowledge_items) ==
    [i \in 1..Len(knowledge_items) |-> [source_info |-> knowledge_items[i]]]

\* search_beauty_knowledge_base: the record serialised when the retrieval
\* returned; results is the value of get_rag_response, which has no key
\* "results" and no key "confidence"
formatted_results(query, tag, results) ==
    [search_successful |-> TRUE,
     query |-> query,
     concern_focus |-> tag,
     knowledge_items |-> Get(results, "results", <<>>),
     confidence |-> Get(results, "confidence", 0),
     recommendations |-> extract_recommendations(Get(results, "results", <<>>))]

\* search_beauty_knowledge_base: the record serialised when anything raised
error_result(query, tag, error) ==
    [search_successful |-> FALSE, error |-> error, query |-> query, concern_focus |-> tag]

\* an agent invokes search_beauty_knowledge_base(q, hint)
Call_search_beauty_knowledge_base ==
    /\ Idle
    /\ served < MaxRequests
    /\ \E q \in SearchQueries : user_query' = q
    /\ \E hint \in ToolConcerns : concern_type' = hint
    /\ op' = "search_beauty_knowledge_base"
    /\ pc' = "tool_retrieve"
    /\ status' = "running"
    /\ classify_status' = "none"
    /\ agent_id' = 0
    /\ response' = NoValue
    /\ classification' = NoValue
    /\ concern' = None
    /\ result' = NoValue
    /\ calls' = <<>>
    /\ served' = served + 1
    /\ rephrased' = NoValue
    /\ rag_response' = NoValue
    /\ summarized_response' = NoValue
    /\ retrievals' = <<>>
    /\ agent_ids' = NoValue
    /\ UNCHANGED <<agent_cache, runtime>>
    /\ UNCHANGED task_vars
    /\ UNCHANGED previous
    /\ UNCHANGED endpoint

\* search_beauty_knowledge_base: the concern type is validated,
\* get_rag_response(query, concern_type) returns and the formatted record is
\* returned
ToolRetrieve ==
    /\ pc = "tool_retrieve"
    /\ concern_type' = validated(concern_type)
    /\ \E answer \in Answers :
        /\ retrievals' = Append(retrievals, RetrievalRec(user_query, concern_type', TRUE, answer))
        /\ rag_response' = get_rag_response(user_query, concern_type', answer)
    /\ Return(formatted_results(user_query, concern_type', rag_response'))
    /\ UNCHANGED <<agent_cache, runtime, op, user_query, agent_id, response, classify_status,
                   classification, concern, calls, served, rephrased, summarized_response>>
    /\ UNCHANGED <<agent_ids, tasks, loop, created, previous, endpoint>>

\* search_beauty_knowledge_base: the concern type is validated,
\* get_rag_response(query, concern_type) raises and the error record is returned
ToolRetrieveFails ==
    /\ pc = "tool_retrieve"
    /\ concern_type' = validated(concern_type)
    /\ retrievals' = Append(retrievals, RetrievalRec(user_query, concern_type', FALSE, NoValue))
    /\ Return(error_result(user_query, concern_type', "retrieval failed"))
    /\ UNCHANGED <<agent_cache, runtime, op, user_query, agent_id, response, classify_status,
                   classification, concern, calls, served, rephrased, rag_response,
                   summarized_response>>
    /\ UNCHANGED <<agent_ids, tasks, loop, created, previous, endpoint>>

NextTool ==
    \/ Call_search_beauty_knowledge_base
    \/ ToolRetrieve
    \/ ToolRetrieveFails

SpecTool == InitRequests /\ [][NextTool]_vars

----------------------------------------------------------------------------
(* Properties of classify_request *)

HasToken(text, c) == \E i \in 1..Len(text) : text[i] = c

\* the text of a delivered reply: that of its first assistant message
ReplyText(reply) == IF Len(reply.messages) = 0 THEN <<>> ELSE reply.messages[1].content

\* the substring from the first "{" to the last "}"
BraceSpan(text) ==
    LET first == CHOOSE i \in 1..Len(text) : text[i] = LB /\ \A j \in 1..(i - 1) : text[j] # LB
        last == CHOOSE i \in 1..Len(text) : text[i] = RB /\ \A j \in (i + 1)..Len(text) : text[j] # RB
    IN  SubSeq(text, first, last)

DecodesAsRecord(text) ==
    LET toks == SelectSeq(text, LAMBDA x : x.t # " ")
    IN  \/ toks = <<LB, RB>>
        \/ \E d \in ClassifierDicts : toks = <<LB, Members(d), RB>>

Braced(text) == HasToken(text, LB) /\ HasToken(text, RB)

Unparseable(text) == ~Braced(text) \/ ~DecodesAsRecord(BraceSpan(text))

\* the record a parseable text decodes to
DecodedRecord(text) ==
    LET toks == SelectSeq(BraceSpan(text), LAMBDA x : x.t # " ")
    IN  IF Len(toks) = 3 THEN toks[2].d ELSE EmptyDict

Diagnostics == {"Could not parse classifier response", "JSON parsing failed"}

IsDefaultVerdict(v, text) ==
    /\ DOMAIN v = RequiredKeys \cup {"raw_response"}
    /\ v.request_type = "general_beauty"
    /\ v.beauty_concern = "general"
    /\ v.confidence = "0.5"
    /\ v.suggested_agent = "beauty_general_agent"
    /\ v.reasoning \in Diagnostics
    /\ v.raw_response = text

\* the classifier's reply was delivered to the call in progress
Delivered == classify_status # "none" /\ response # NoValue

C2_MissingKeysGiveDefault ==
    (classify_status = "returned")
        => /\ {"confidence", "reasoning"} \subseteq DOMAIN classification
           /\ (/\ ~Unparseable(ReplyText(response))
               /\ ~(RequiredKeys \subseteq DOMAIN DecodedRecord(ReplyText(response))))
                  => IsDefaultVerdict(classification, ReplyText(response))

\* the last collaborator call of the call in progress failed
LastCallFailed == Len(calls) > 0 /\ ~calls[Len(calls)].ok

\* a list, create or send call about the classifier agent failed
ClassifierCallFailed ==
    \E i \in 1..Len(calls) : calls[i].name = ClassifierName /\ ~calls[i].ok

----------------------------------------------------------------------------
(* Properties of process_beauty_request *)

InProcess == op = "process_beauty_request"

\* the collaborator calls about another agent than the classifier
SpecialistCalls == {i \in 1..Len(calls) : calls[i].name # ClassifierName}

SpecialistSends == {i \in SpecialistCalls : calls[i].call = "send"}

\* C4: if classify_request raises, process_beauty_request raises, returns
\* no partial result, and no specialist is resolved, created or messaged.
C4_ClassifyFailureIsFatal ==
    (InProcess /\ classify_status = "raised")
        => /\ status = "raised"
           /\ result = NoValue
           /\ SpecialistCalls = {}
           /\ concern = None

C4_Witness ==
    /\ InProcess /\ classify_status = "raised" /\ status = "raised"
    /\ calls[Len(calls)].call = "send"

\* the specialist stage of the call in progress failed
SpecialistFailed ==
    /\ InProcess /\ classify_status = "returned"
    /\ LastCallFailed

\* C5: if classification succeeds and resolving or messaging the specialist
\* fails, process_beauty_request raises and returns nothing, and the
\* specialist is messaged at most once per dispatch (no retry).
C5_SpecialistFailureIsFatal ==
    /\ SpecialistFailed => (status = "raised" /\ result = NoValue)
    /\ InProcess => Cardinality(SpecialistSends) <= 1
    /\ (InProcess /\ status = "returned") => Cardinality(SpecialistSends) = 1

C5_Witness ==
    /\ SpecialistFailed /\ status = "raised"
    /\ Cardinality(SpecialistSends) = 1

\* the verdict's concern is absent or outside the enumeration
ConcernUnknown(v) == "beauty_concern" \notin DOMAIN v \/ v.beauty_concern \notin BeautyConcern

Dispatched == InProcess /\ classify_status = "returned" /\ pc \in {"specialist_send", "done"}

\* C6: a verdict whose beauty_concern is absent or outside the enumeration
\* is dispatched to the general specialist, and the value makes nothing raise.
C6_UnknownConcernGoesToGeneral ==
    (Dispatched /\ ConcernUnknown(classification))
        => /\ concern = "general"
           /\ \A i \in SpecialistCalls : calls[i].name = "beauty_general_agent"
           /\ status = "raised" => LastCallFailed
           /\ status = "returned" => result.specialist_response.concern = "general"

C6_Witness ==
    /\ InProcess /\ status = "returned"
    /\ "beauty_concern" \in DOMAIN classification
    /\ classification.beauty_concern = "rosacea"
    /\ calls[Len(calls)] = CallRec("send", "beauty_general_agent", agent_id, TRUE)

SpecialistNameOf ==
    [acne |-> "beauty_acne_agent", aging |-> "beauty_aging_agent",
     sensitivity |-> "beauty_sensitivity_agent", dryness |-> "beauty_dryness_agent",
     oiliness |-> "beauty_oiliness_agent",
     hyperpigmentation |-> "beauty_hyperpigmentation_agent",
     general |-> "beauty_general_agent"]

\* C7: for a verdict whose beauty_concern is an enumeration member c, a
\* successful process_beauty_request messages the agent named beauty_<c>_agent
\* and returns classification.beauty_concern = c, specialist_response.concern
\* = c and pipeline = "multi_agent_react".
C7_KnownConcernGoesToItsSpecialist ==
    (InProcess /\ status = "returned" /\ ~ConcernUnknown(classification))
        => LET c == classification.beauty_concern
           IN  /\ calls[Len(calls)].call = "send" /\ calls[Len(calls)].ok
               /\ calls[Len(calls)].name = SpecialistNameOf[c]
               /\ runtime[result.specialist_response.agent_id] = SpecialistNameOf[c]
               /\ \A i \in SpecialistCalls : calls[i].name = SpecialistNameOf[c]
               /\ result.classification.beauty_concern = c
               /\ result.specialist_response.concern = c
               /\ result.pipeline = "multi_agent_react"

C7_Witness ==
    /\ InProcess /\ status = "returned"
    /\ ~ConcernUnknown(classification)
    /\ classification.beauty_concern = "dryness"
    /\ calls[Len(calls)].name = "beauty_dryness_agent"

\* C8 (as claimed): the concern of every verdict returned by classify_request,
\* and of the classification in every result of process_beauty_request, is a
\* member of the enumeration.
C8_VerdictConcernInEnumeration ==
    /\ (classify_status = "returned") => ~ConcernUnknown(classification)
    /\ (InProcess /\ status = "returned") => ~ConcernUnknown(result.classification)

----------------------------------------------------------------------------
(* Properties of rephrase_query *)

InRephrase == op = "rephrase_query"

\* C9: if resolving the rephraser agent or sending to it fails,
\* rephrase_query returns exactly the query it was given and does not raise.
C9_RephraseFailureReturnsQuery ==
    InRephrase =>
        /\ status # "raised"
        /\ LastCallFailed => (status = "returned" /\ result = user_query)

C9_Witness ==
    /\ InRephrase /\ status = "returned"
    /\ calls[Len(calls)] = CallRec("send", RephraserName, agent_id, FALSE)
    /\ result = user_query

\* the text is empty or only whitespace
Blank(text) == \A i \in 1..Len(text) : text[i] = WS

\* C10 (as claimed): for a non-empty query rephrase_query returns a
\* non-empty string, and an empty reply (no assistant message, or a text
\* that is empty or only whitespace) yields the query unchanged.
C10_RephraseNeverEmpty ==
    (InRephrase /\ status = "returned" /\ user_query # <<>>)
        => /\ result # <<>>
           /\ (response # NoValue /\ Blank(ReplyText(response))) => result = user_query

----------------------------------------------------------------------------
(* Properties of search_beauty_products *)

InSearch == op = "search_beauty_products"

\* a list, create or send call about the summarizer agent failed
SummarizerFailed ==
    \E i \in 1..Len(calls) : calls[i].name = SummarizerName /\ ~calls[i].ok

\* the summarizer agent was sent the answer and replied
SummarizerReplied ==
    \E i \in 1..Len(calls) :
        calls[i].name = SummarizerName /\ calls[i].call = "send" /\ calls[i].ok

\* a list, create or send call about the rephraser agent failed
RephraserFailed ==
    \E i \in 1..Len(calls) : calls[i].name = RephraserName /\ ~calls[i].ok

\* the first retrieval was made and returned / raised
FirstRetrievalOk == Len(retrievals) >= 1 /\ retrievals[1].ok
FirstRetrievalFailed == Len(retrievals) >= 1 /\ ~retrievals[1].ok

\* the second retrieval was made and returned / raised
SecondRetrievalOk == Len(retrievals) = 2 /\ retrievals[2].ok
SecondRetrievalFailed == Len(retrievals) = 2 /\ ~retrievals[2].ok

\* search_beauty_products returned
SearchReturned == InSearch /\ status = "returned"

\* C11: whenever resolving the summarizer agent or the exchange with it
\* fails, summarize_response does not raise: it returns a record whose
\* summary is the answer it was given and which flags the failure, and the
\* search goes on to return.
C11_SummarizeFailureFallsBack ==
    (InSearch /\ SummarizerFailed)
        => /\ summarized_response # NoValue
           /\ summarized_response.summary = rag_response.answer
           /\ "error" \in DOMAIN summarized_response
           /\ status = "returned"

\* the exchange with the summarizer failed after a non-empty answer
C11_Witness ==
    /\ InSearch /\ SummarizerFailed
    /\ calls[Len(calls)].call = "send"
    /\ Len(rag_response.answer) > 0
    /\ summarized_response.summary = rag_response.answer

\* C12 (as claimed): whenever the retrieval produced a non-empty answer, the
\* final_response of the result is non-empty, also when the summarizer
\* replied with no message or with an empty text.
C12_AnswerAlwaysDelivered ==
    (SearchReturned /\ Len(result.rag_response.answer) > 0)
        => Len(result.final_response) > 0

\* C13: when the first retrieval, with the rephrased query, raises and the
\* second, with the original query, returns, search_beauty_products returns
\* and its final_response is the answer of the second retrieval.
C13_SecondRetrievalAnswers ==
    (InSearch /\ FirstRetrievalFailed /\ SecondRetrievalOk)
        => /\ status = "returned"
           /\ retrievals[1].query = rephrased
           /\ retrievals[2].query = user_query
           /\ result.final_response = retrievals[2].answer

\* the retrieval with a rephrased query raised and the one with the original
\* query gave a non-empty answer
C13_Witness ==
    /\ InSearch /\ FirstRetrievalFailed /\ SecondRetrievalOk
    /\ rephrased # user_query
    /\ Len(retrievals[2].answer) > 0

\* C14: search_beauty_products raises exactly when both retrievals raise,
\* and every result carries the answer of a retrieval of this call that
\* returned.
C14_RaisesIffBothRetrievalsFail ==
    InSearch
        => /\ (status = "raised") <=> (FirstRetrievalFailed /\ SecondRetrievalFailed)
           /\ (status = "returned")
                => \E i \in 1..Len(retrievals) :
                        /\ retrievals[i].ok
                        /\ result.rag_response.answer = retrievals[i].answer

\* both retrievals raised and search_beauty_products raised
C14_Witness ==
    InSearch /\ status = "raised" /\ FirstRetrievalFailed /\ SecondRetrievalFailed

\* C15: with every collaborator call returning or raising, every call of
\* search_beauty_products terminates, and it never raises once its first
\* retrieval has returned: it then terminates with a result, also when the
\* rephraser and the summarizer both fail.
C15_SearchTerminates ==
    /\ (InSearch /\ status = "running") ~> (InSearch /\ pc = "done")
    /\ (InSearch /\ status = "running" /\ FirstRetrievalOk) ~> SearchReturned
    /\ [](InSearch /\ FirstRetrievalOk => status # "raised")

\* a call returned a result although the rephraser and the summarizer failed
C15_Witness ==
    /\ SearchReturned /\ FirstRetrievalOk
    /\ RephraserFailed /\ SummarizerFailed
    /\ Len(result.final_response) > 0

\* C16: in every result, of the main path and of the retry path,
\* original_query is the query given and rephrasing_used holds exactly when
\* rephrased_query differs from original_query.
C16_RephrasingUsedIffQueryChanged ==
    SearchReturned
        => /\ result.original_query = user_query
           /\ result.pipeline_metadata.rephrasing_used
                <=> (result.rephrased_query # result.original_query)

\* the rephraser replied with the query itself and the main path returned
C16_Witness ==
    /\ SearchReturned /\ FirstRetrievalOk
    /\ ~RephraserFailed
    /\ Len(response.messages) > 0
    /\ result.rephrased_query = user_query
    /\ ~result.pipeline_metadata.rephrasing_used

\* the metadata of the result returned
Metadata == result.pipeline_metadata

\* C17 (as claimed): in every result, metadata.fallback_used is true exactly
\* when the answer was delivered unsummarized, and false when the summarizer
\* produced the summary.
C17_FallbackUsedIffUnsummarized ==
    SearchReturned
        => /\ "fallback_used" \in DOMAIN Metadata
           /\ Metadata.fallback_used <=> ~SummarizerReplied

\* C18 (as claimed): every result has the same fields whichever path
\* produced it: the original query, the rephrased query, the retrieved
\* answer, the final summary, and a metadata record with rephrasing_used,
\* fallback_used and the errors.
C18_ResultFieldsUniform ==
    SearchReturned
        => /\ DOMAIN result = DOMAIN retry_result(user_query, result.rag_response)
           /\ DOMAIN Metadata = DOMAIN retry_result(user_query, result.rag_response).pipeline_metadata
           /\ {"original_query", "rephrased_query", "rag_response", "final_response"}
                \subseteq DOMAIN result
           /\ {"rephrasing_used", "fallback_used"} \subseteq DOMAIN Metadata
           /\ "errors" \in DOMAIN Metadata \/ "error" \in DOMAIN Metadata

\* the metadata m tells that a stage failed
RecordsError(m) ==
    \/ "error" \in DOMAIN m
    \/ "errors" \in DOMAIN m /\ m.errors # <<>>
    \/ "has_error" \in DOMAIN m /\ m.has_error

\* C19 (as claimed): whenever a result is returned after the rephraser or
\* the summarizer failed, its metadata records an error, so that a failed
\* rephrasing differs from a rephrasing that left the query unchanged.
C19_DegradedStageRecorded ==
    (SearchReturned /\ (RephraserFailed \/ SummarizerFailed)) => RecordsError(Metadata)

\* tag is the first concern, in the order acne, aging, sensitivity, dryness,
\* oiliness, hyperpigmentation, with a keyword occurring in the lower-cased
\* query, or None when no concern has one
IsFirstMatch(tag, query) ==
    LET Matches(c) == \E keyword \in concern_keywords[c] : contains(lower(query), keyword)
        order == <<"acne", "aging", "sensitivity", "dryness", "oiliness", "hyperpigmentation">>
    IN  IF tag = None
        THEN \A i \in 1..6 : ~Matches(order[i])
        ELSE \E i \in 1..6 :
                /\ order[i] = tag
                /\ Matches(tag)
                /\ \A j \in 1..(i - 1) : ~Matches(order[j])

DrySkinQuery ==
    Text(<<"b", "e", "s", "t", " ", "m", "o", "i", "s", "t", "u", "r", "i", "z", "e", "r", " ",
           "f", "o", "r", " ", "d", "r", "y", " ", "s", "k", "i", "n">>)

\* C20: with no concern type given, the first retrieval of
\* search_beauty_products is given the first concern, in the order acne,
\* aging, sensitivity, dryness, oiliness, hyperpigmentation, with a keyword
\* occurring in the lower-cased query; for "best moisturizer for dry skin"
\* that is dryness.
C20_FirstRetrievalTagged ==
    [][(InSearch /\ pc = "retrieve" /\ concern_type = None)
        => /\ Len(retrievals') = 1
           /\ retrievals'[1].query = rephrased
           /\ IsFirstMatch(retrievals'[1].concern_type, user_query)
           /\ (user_query = DrySkinQuery) => retrievals'[1].concern_type = "dryness"]_vars

\* "best moisturizer for dry skin" was retrieved with the tag dryness
C20_Witness ==
    /\ InSearch /\ Len(retrievals) >= 1
    /\ user_query = DrySkinQuery
    /\ retrievals[1].concern_type = "dryness"
    /\ retrievals[1].category = "dryness"

\* the first retrieval of a call given no concern type whose query holds no
\* keyword leaves the concern type unset, and hands rag_service.ask_agent the
\* category category
UntaggedRetrieval(category) ==
    (InSearch /\ pc = "retrieve" /\ concern_type = None /\ IsFirstMatch(None, user_query))
        => /\ concern_type' = None
           /\ Len(retrievals') = 1
           /\ retrievals'[1].concern_type = None
           /\ retrievals'[1].category = category
           /\ retrievals'[1].ok => rag_response'.concern_type = None

\* a result whose first retrieval was given no concern type reports none
UntaggedResult ==
    (SearchReturned /\ FirstRetrievalOk /\ retrievals[1].concern_type = None)
        => /\ Metadata.rag_concern_type = None
           /\ result.rag_response.concern_type = None

\* C21 (as claimed): with no concern type given and no keyword in the query,
\* the concern type stays unset, the retriever is queried with no category,
\* and the result reports no concern type.
C21_NoCategoryWhenUntagged == [][UntaggedRetrieval(None)]_vars /\ []UntaggedResult

\* C21 (amended): with no concern type given and no keyword in the query,
\* the concern type stays unset, get_rag_response is given no concern type
\* and the result reports none; the category handed to
\* rag_service.ask_agent is "general".
C21_UntaggedQueryStaysUntagged == [][UntaggedRetrieval("general")]_vars /\ []UntaggedResult

\* a query without keyword was retrieved untagged and the result reports no
\* concern type
C21_Witness ==
    /\ SearchReturned /\ FirstRetrievalOk
    /\ IsFirstMatch(None, user_query)
    /\ retrievals[1].concern_type = None
    /\ retrievals[1].category = "general"
    /\ Metadata.rag_concern_type = None

----------------------------------------------------------------------------
(* Properties of the agents *)

GetOrCreateFunctions == DOMAIN GetOrCreateName \cup {"get_or_create_concern_agent"}

\* this step is a whole call of a get_or_create_* function
GetOrCreateStep == op' \in GetOrCreateFunctions /\ served' = served + 1

\* C23: get_or_create_* returns the cached id of a cached agent name;
\* otherwise, when the runtime lists an agent of that name, it returns and
\* caches the id of such an agent and creates nothing; otherwise it creates
\* exactly one agent.  Two consecutive calls for the same name return the
\* same id, the second creating nothing.
C23_GetOrCreateIdempotent ==
    [][GetOrCreateStep =>
        LET n == NameResolved(op', concern')
        IN  /\ n \in DOMAIN agent_cache
                => /\ status' = "returned"
                   /\ result' = agent_cache[n]
                   /\ runtime' = runtime
                   /\ calls' = <<>>
            /\ (n \notin DOMAIN agent_cache /\ Listed(n) # {} /\ status' = "returned")
                => /\ result' \in Listed(n)
                   /\ runtime' = runtime
                   /\ agent_cache'[n] = result'
            /\ (n \notin DOMAIN agent_cache /\ Listed(n) = {} /\ status' = "returned")
                => /\ runtime' = Append(runtime, n)
                   /\ result' = Len(runtime')
                   /\ agent_cache'[n] = result'
            /\ status' = "raised" => runtime' = runtime /\ agent_cache' = agent_cache
            /\ (op = op' /\ concern = concern' /\ status = "returned" /\ status' = "returned")
                => result' = result /\ runtime' = runtime]_vars

\* a second call of get_or_create_* in a row returned the cached id of the
\* agent the first one found in the runtime
C23_Witness ==
    /\ op \in GetOrCreateFunctions
    /\ status = "returned"
    /\ served >= 2
    /\ calls = <<>>
    /\ result = agent_cache[NameResolved(op, concern)]
    /\ runtime[result] = NameResolved(op, concern)

\* C24 (as claimed): once an agent name is in the identity cache, no
\* operation removes its entry or changes the id it maps to.
C24_CacheAppendOnly ==
    [][\A n \in DOMAIN agent_cache :
        n \in DOMAIN agent_cache' /\ agent_cache'[n] = agent_cache[n]]_vars

InInitialize == op = "initialize_agent_system"

\* C28: initialize_agent_system, when it returns, returns a map with exactly
\* the ten keys classifier, rephraser, summarizer and specialist_<c> for the
\* seven concerns, each mapped to the id resolved for its agent; when
\* resolving an agent fails it raises and returns nothing.
C28_InitializeReturnsTenOrRaises ==
    InInitialize
        => /\ (status = "returned")
                => /\ DOMAIN result =
                        {"classifier", "rephraser", "summarizer", "specialist_acne",
                         "specialist_aging", "specialist_sensitivity", "specialist_dryness",
                         "specialist_oiliness", "specialist_hyperpigmentation",
                         "specialist_general"}
                   /\ Cardinality(DOMAIN result) = 10
                   /\ result["classifier"] = agent_cache[ClassifierName]
                   /\ result["rephraser"] = agent_cache[RephraserName]
                   /\ result["summarizer"] = agent_cache[SummarizerName]
                   /\ \A c \in BeautyConcern :
                        result["specialist_" \o c] = agent_cache[ConcernAgentName(c)]
           /\ LastCallFailed => (status = "raised" /\ result = NoValue)
           /\ (status = "raised") => LastCallFailed

\* initialize_agent_system returned ten ids, one of them of an agent it
\* found in the runtime and one of an agent it created
C28_Witness ==
    /\ InInitialize /\ status = "returned"
    /\ Cardinality(DOMAIN result) = 10
    /\ \E i \in 1..Len(calls) : calls[i].call = "create" /\ calls[i].ok
    /\ \E r \in {ClassifierName, RephraserName} :
            ~\E i \in 1..Len(calls) : calls[i].call = "create" /\ calls[i].name = r

\* the number of agents named agent_name created by the concurrent requests
Creations(agent_name) == Cardinality({i \in 1..Len(created) : created[i] = agent_name})

CreatedByCall ==
    {calls[i].name : i \in {j \in 1..Len(calls) : calls[j].call = "create" /\ calls[j].ok}}

\* the names of the agents the call in progress looked up, created or messaged
ResolvedByCall == {calls[i].name : i \in 1..Len(calls)}

\* the call in progress is the first one and the runtime held no agent when
\* it began
FirstCallOnEmptyRuntime ==
    /\ served = 1
    /\ Len(runtime) = Cardinality({j \in 1..Len(calls) : calls[j].call = "create" /\ calls[j].ok})

\* C25: from an empty cache and a runtime holding no agent, a
\* process_beauty_request that returns has resolved and created exactly two
\* agents, the classifier and the specialist of the coerced concern, and a
\* search_beauty_products call resolves the rephraser and the summarizer
\* only; a request creates no other agent.
C25_AgentsResolvedLazily ==
    FirstCallOnEmptyRuntime
        => /\ (InProcess /\ status = "returned")
                => /\ runtime = <<ClassifierName, ConcernAgentName(concern)>>
                   /\ DOMAIN agent_cache = {ClassifierName, ConcernAgentName(concern)}
                   /\ concern \in BeautyConcern
           /\ InProcess
                => /\ ResolvedByCall \subseteq {ClassifierName} \cup
                                               {ConcernAgentName(c) : c \in BeautyConcern}
                   /\ Len(runtime) <= 2
           /\ InSearch
                => /\ ResolvedByCall \subseteq {RephraserName, SummarizerName}
                   /\ DOMAIN agent_cache \subseteq {RephraserName, SummarizerName}
                   /\ \A i \in 1..Len(runtime) : runtime[i] \in {RephraserName, SummarizerName}
           /\ DOMAIN agent_cache = CreatedByCall

\* a first process_beauty_request on a runtime holding no agent returned the
\* answer of the acne specialist
C25_Witness ==
    /\ FirstCallOnEmptyRuntime
    /\ InProcess /\ status = "returned"
    /\ runtime = <<ClassifierName, ConcernAgentName("acne")>>

\* the place of a position in the order of the stages of a request:
\* classify or rephrase, then dispatch or retrieve, then summarize, then done
StageOf(position) ==
    CASE position \in {"classifier_resolve", "classifier_send",
                       "rephraser_resolve", "rephraser_send"} -> 1
      [] position \in {"dispatch", "specialist_send", "retrieve", "retry"} -> 2
      [] position \in {"summarizer_resolve", "summarizer_send"} -> 3
      [] position = "done" -> 4
      [] OTHER -> 0

\* the place of a position in the order of the steps of a request
StepOf(position) ==
    CASE position \in {"classifier_resolve", "rephraser_resolve"} -> 1
      [] position \in {"classifier_send", "rephraser_send"} -> 2
      [] position \in {"dispatch", "retrieve"} -> 3
      [] position \in {"specialist_send", "retry"} -> 4
      [] position = "summarizer_resolve" -> 5
      [] position = "summarizer_send" -> 6
      [] position = "done" -> 7
      [] OTHER -> 0

\* the exchanges of the call in progress with the agent named agent_name
Sends(agent_name) ==
    {i \in 1..Len(calls) : calls[i].call = "send" /\ calls[i].name = agent_name}

\* the exchanges of the call in progress with a specialist agent
AllSpecialistSends ==
    {i \in 1..Len(calls) :
        calls[i].call = "send" /\ \E c \in BeautyConcern : calls[i].name = ConcernAgentName(c)}

\* C26: within one request the stages are passed in their order and none is
\* entered again: process_beauty_request makes the classifier exchange and
\* then the specialist exchange, search_beauty_products rephrases, then
\* retrieves, then summarizes, then is over.
C26_StagesInOrder ==
    /\ [][(served' = served) => /\ StageOf(pc') >= StageOf(pc)
                                /\ StepOf(pc') > StepOf(pc)]_vars
    /\ [](InProcess => /\ Cardinality(Sends(ClassifierName)) <= 1
                       /\ Cardinality(AllSpecialistSends) <= 1
                       /\ \A i \in Sends(ClassifierName) : \A j \in AllSpecialistSends : i < j)
    /\ [](InSearch => /\ Cardinality(Sends(RephraserName)) <= 1
                      /\ Cardinality(Sends(SummarizerName)) <= 1
                      /\ \A i \in Sends(RephraserName) : \A j \in Sends(SummarizerName) : i < j
                      /\ Sends(SummarizerName) # {} => FirstRetrievalOk
                      /\ Len(retrievals) >= 1 => retrievals[1].query = rephrased)

\* a search_beauty_products call went through the three stages
C26_Witness ==
    /\ SearchReturned
    /\ Sends(RephraserName) # {}
    /\ FirstRetrievalOk
    /\ Sends(SummarizerName) # {}

----------------------------------------------------------------------------
(* Properties of the retrievals of search_beauty_products *)

\* C30: a call of search_beauty_products invokes the retriever at most twice;
\* the second invocation comes only after the first one raised, it is given the
\* original query and no concern type, whatever concern type the first one was
\* given, and no exchange with the summarizer takes place in a call that
\* retrieves twice.
C30_RetryOnceWithOriginalQuery ==
    InSearch =>
        /\ Len(retrievals) <= 2
        /\ Len(retrievals) = 2 =>
            /\ ~retrievals[1].ok
            /\ retrievals[2].query = user_query
            /\ retrievals[2].concern_type = None
            /\ Sends(SummarizerName) = {}
            /\ summarized_response = NoValue

\* the first retrieval, on a rephrased query with a concern type, raised and
\* the second retrieval returned
C30_Witness ==
    /\ SearchReturned
    /\ Len(retrievals) = 2
    /\ retrievals[1].query # user_query
    /\ retrievals[1].concern_type = "aging"
    /\ retrievals[2].ok

----------------------------------------------------------------------------
(* Properties of search_beauty_knowledge_base *)

\* the tool, given a concern type outside BeautyConcern, reports no concern
ToolReplacesUnknownConcern ==
    (pc = "tool_retrieve" /\ concern_type \notin BeautyConcern \cup {None}) =>
        /\ concern_type' = None
        /\ retrievals'[1].concern_type = None
        /\ result'.concern_focus = None

\* the tool returns a record that tells whether the retrieval returned
ToolReturnsRecord ==
    pc = "tool_retrieve" =>
        /\ status' = "returned"
        /\ result'.search_successful = retrievals'[1].ok
        /\ ~retrievals'[1].ok => result'.error = "retrieval failed"

\* C29: search_beauty_knowledge_base never raises: a concern type outside the
\* enumeration is replaced by no concern, the retrieval is made without it and
\* concern_focus is null in the record returned; the record has
\* search_successful true when the retrieval returned and search_successful
\* false with the error text when it raised.
C29_ToolNeverRaises == [][ToolReplacesUnknownConcern /\ ToolReturnsRecord]_vars

----------------------------------------------------------------------------
(* Properties of search_beauty_products called again *)

\* the call in progress resolved every agent it used from the cache
ResolvedFromCache == \A i \in 1..Len(calls) : calls[i].call = "send"

\* C27: with deterministic collaborators, a call of search_beauty_products
\* that repeats the query of the call before it and finds in the cache the
\* identity of every agent it uses ends as that call ended: it raises if that
\* call raised and otherwise returns the same final_response.
C27_SearchRepeatable ==
    (InSearch /\ pc = "done" /\ previous # NoValue /\ ResolvedFromCache) =>
        /\ previous.user_query = user_query
        /\ status = previous.status
        /\ status = "returned" => result.final_response = previous.result.final_response

\* the second call, served by the cached rephraser and summarizer, returned a
\* summary of the answer to a rephrased query
C27_Witness ==
    /\ SearchReturned
    /\ previous # NoValue
    /\ ResolvedFromCache
    /\ Sends(RephraserName) # {}
    /\ Sends(SummarizerName) # {}
    /\ result.pipeline_metadata.rephrasing_used
    /\ result.final_response # <<>>
    /\ ~result.pipeline_metadata.has_error

----------------------------------------------------------------------------
(* Properties of the data handed from stage to stage *)

\* C31: on the main path of search_beauty_products the first retrieval is
\* given exactly the value returned by rephrase_query, and summarize_response
\* is given the answer of that retrieval together with the original query.
C31_StagesHandOver ==
    InSearch =>
        /\ Len(retrievals) >= 1 => retrievals[1].query = rephrased
        /\ summarized_response # NoValue =>
            /\ FirstRetrievalOk
            /\ summarized_response.original_rag_response = retrievals[1].answer
            /\ summarized_response.original_query = user_query

\* the summarizer replied about the answer to a query that was rephrased
C31_Witness ==
    /\ SearchReturned
    /\ retrievals[1].query # user_query
    /\ retrievals[1].answer # <<>>
    /\ SummarizerReplied
    /\ summarized_response.original_query = user_query

----------------------------------------------------------------------------
(* Properties of create_agent and delete_agent *)

\* the step is a call of f
CallOf(f) == op' = f /\ served' = served + 1

\* C32: when create_agent(name, ...) returns, the agent it returns is new in
\* the runtime and bears the name, the cache maps the name to the id returned
\* and every other entry of the cache is as before; when the creation fails in
\* the runtime, create_agent raises and the cache and the runtime are as before.
C32_CreateCachesTheNewAgent ==
    [][CallOf("create_agent") =>
        IF calls'[1].ok
        THEN /\ status' = "returned"
             /\ result'.id = Len(runtime) + 1
             /\ runtime' = Append(runtime, calls'[1].name)
             /\ DOMAIN agent_cache' = DOMAIN agent_cache \cup {calls'[1].name}
             /\ agent_cache'[calls'[1].name] = result'.id
             /\ \A n \in DOMAIN agent_cache \ {calls'[1].name} : agent_cache'[n] = agent_cache[n]
        ELSE /\ status' = "raised"
             /\ agent_cache' = agent_cache
             /\ runtime' = runtime]_vars

\* create_agent returned a second agent of a name, which the cache now holds
\* beside the entry of another name
C32_Witness ==
    /\ op = "create_agent"
    /\ status = "returned"
    /\ agent_cache[result.name] = result.id
    /\ \E i \in 1..(result.id - 1) : runtime[i] = result.name
    /\ \E n \in DOMAIN agent_cache : n # result.name

----------------------------------------------------------------------------
(* Properties of get_available_agents *)

\* the agents get_or_create_concern_agent creates
ConcernSpecialists == {ConcernAgentName(c) : c \in BeautyConcern}

\* the names of a group
Group(g) == {result[g][i] : i \in 1..Len(result[g])}

\* the value returned groups the agents of the runtime
GroupsPartitionTheListing ==
    /\ Len(result.classifier) + Len(result.specialists) + Len(result.general)
            = Len(list_agents)
    /\ Group("classifier") \cap Group("specialists") = {}
    /\ Group("classifier") \cap Group("general") = {}
    /\ Group("specialists") \cap Group("general") = {}
    /\ \A i \in 1..Len(list_agents) : list_agents[i] \in Group(group_of(list_agents[i]))

\* C33: get_available_agents puts every agent listed in exactly one of the
\* groups classifier, specialists and general, so the sizes of the groups sum
\* to the number of agents listed, and the group specialists holds only agents
\* that are specialists of a concern.
C33_EveryAgentInOneGroup ==
    [][(CallOf("get_available_agents") /\ status' = "returned") =>
        /\ GroupsPartitionTheListing'
        /\ Group("specialists")' \subseteq ConcernSpecialists]_vars

----------------------------------------------------------------------------
(* Properties of process_multi_agent_request *)

\* C34: when the request carries force_concern, every specialist messaged for
\* it is the specialist of that concern, whatever concern the classifier gave.
C34_ForceConcernRoutes ==
    (endpoint.request # NoValue /\ endpoint.request.force_concern # None) =>
        \A i \in AllSpecialistSends :
            calls[i].name = ConcernAgentName(endpoint.request.force_concern)

\* C35: the endpoint answers with a MultiAgentResponse carrying the
\* classification and the specialist response whenever process_beauty_request
\* returned a result, and with an error only when process_beauty_request raised.
C35_EndpointAnswersWithResult ==
    (endpoint.response # NoValue) =>
        IF status = "returned"
        THEN /\ endpoint.response.status_code = 200
             /\ endpoint.response.body.specialist_response.agent_id
                    = result.specialist_response.agent_id
             /\ endpoint.response.body.specialist_response.response
                    = result.specialist_response.response
        ELSE endpoint.response.status_code = 500

----------------------------------------------------------------------------
(* Properties of delete_agent *)

\* the agent cached under agent_name has been deleted
CachedDeleted(agent_name) ==
    /\ agent_name \in DOMAIN agent_cache
    /\ runtime[agent_cache[agent_name]] = Deleted

\* a step that resolves the agent named agent_name while the agent cached
\* under that name is deleted takes the cached id and neither lists nor
\* creates agents: it adds no call to log
TakesDeletedId(agent_name, log) ==
    CachedDeleted(agent_name) =>
        /\ agent_id' = agent_cache[agent_name]
        /\ runtime' = runtime
        /\ agent_cache' = agent_cache
        /\ calls' = log

\* a call of get_or_create_* for a role whose cached agent is deleted returns
\* the deleted id
GetOrCreateReturnsDeletedId ==
    \A f \in GetOrCreateFunctions :
        CallOf(f) =>
            /\ TakesDeletedId(NameResolved(f, concern'), <<>>)
            /\ CachedDeleted(NameResolved(f, concern')) =>
                    (status' = "returned" /\ result' = agent_id')

\* the exchange of a stage is made with the agent resolved for the stage
SendsToResolved ==
    pc \in {"classifier_send", "specialist_send"} =>
        /\ Len(calls') = Len(calls) + 1
        /\ calls'[Len(calls')].call = "send"
        /\ calls'[Len(calls')].id = agent_id

\* C36: delete_agent leaves the cache as it is; once the agent cached for a
\* role is deleted, get_or_create for that role returns the deleted id without
\* listing or creating agents, and process_beauty_request messages the deleted
\* agent.
C36_DeletedAgentStaysCached ==
    /\ [][CallOf("delete_agent") => agent_cache' = agent_cache]_vars
    /\ [][GetOrCreateReturnsDeletedId]_vars
    /\ [][pc = "classifier_resolve" => TakesDeletedId(ClassifierName, calls)]_vars
    /\ [][pc = "dispatch" => TakesDeletedId(ConcernAgentName(concern'), calls)]_vars
    /\ [][SendsToResolved]_vars

\* process_beauty_request messaged the classifier agent that was cached and
\* then deleted
C36_Witness ==
    /\ InProcess
    /\ CachedDeleted(ClassifierName)
    /\ \E i \in 1..Len(calls) :
        calls[i].call = "send" /\ calls[i].id = agent_cache[ClassifierName]

----------------------------------------------------------------------------
(* Properties of what a stage depends on *)

\* C37: the specialist process_beauty_request resolves and messages is
\* determined by the beauty_concern of the verdict alone: whatever the
\* suggested_agent, request_type, confidence and reasoning of the verdict, and
\* whether they are present, it is the specialist of the coerced beauty_concern.
C37_SpecialistFromConcernOnly ==
    Dispatched =>
        LET c == coerce_concern(Get(classification, "beauty_concern", "general"))
        IN  /\ concern = c
            /\ \A i \in SpecialistCalls : calls[i].name = ConcernAgentName(c)
            /\ pc = "specialist_send" => runtime[agent_id] = ConcernAgentName(c)
            /\ status = "returned" =>
                    runtime[result.specialist_response.agent_id] = ConcernAgentName(c)

\* the classification returned suggests another agent than the one that answered
C37_Witness ==
    /\ InProcess
    /\ status = "returned"
    /\ "suggested_agent" \in DOMAIN result.classification
    /\ result.classification.suggested_agent = "beauty_general_agent"
    /\ runtime[result.specialist_response.agent_id] = "beauty_acne_agent"

\* the first retrieval of search_beauty_products is given the concern type the
\* caller gave or, when the caller gave none, the one detected in the original
\* query
TagFromOriginalQuery ==
    (InSearch /\ pc = "retrieve") =>
        /\ Len(retrievals') = 1
        /\ retrievals'[1].concern_type =
                (IF concern_type \in {None, ""} THEN detect_concern_type(user_query)
                 ELSE concern_type)

\* C38: the concern type search_beauty_products gives to the retrieval is a
\* function of the original query and of the concern type given by the caller,
\* never of the rephrased query: whatever the rephraser replied, the same query
\* and hint give the same concern type.
C38_TagIgnoresRephrasing == [][TagFromOriginalQuery]_vars

\* the retrieval was tagged dryness, detected in the original query, although
\* the rephrased query holds no keyword of any concern
C38_Witness ==
    /\ InSearch
    /\ Len(retrievals) >= 1
    /\ retrievals[1].concern_type = "dryness"
    /\ rephrased # user_query
    /\ detect_concern_type(rephrased) = None

----------------------------------------------------------------------------
(* Properties of the collaborators of the two flows *)

\* the agent names of the specialists
SpecialistNames == {ConcernAgentName(c) : c \in BeautyConcern}

\* the names of the agents the call in progress looked up, created or messaged
Collaborators == {calls[i].name : i \in 1..Len(calls)}

\* C39: search_beauty_products looks up, creates and messages no agent but
\* the rephraser and the summarizer, so never the classifier or a specialist;
\* process_beauty_request looks up, creates and messages no agent but the
\* classifier and the specialists, so never the rephraser or the summarizer,
\* and it makes no retrieval.
C39_FlowsShareNoCollaborator ==
    /\ InSearch =>
        /\ Collaborators \subseteq {RephraserName, SummarizerName}
        /\ Collaborators \cap ({ClassifierName} \cup SpecialistNames) = {}
        /\ classification = NoValue
    /\ InProcess =>
        /\ Collaborators \subseteq {ClassifierName} \cup SpecialistNames
        /\ Collaborators \cap {RephraserName, SummarizerName} = {}
        /\ retrievals = <<>>
        /\ rag_response = NoValue

\* process_beauty_request returned in a process whose earlier search had
\* cached the rephraser and the summarizer
C39_Witness ==
    /\ InProcess
    /\ status = "returned"
    /\ {RephraserName, SummarizerName} \subseteq DOMAIN agent_cache
    /\ ClassifierName \in Collaborators
    /\ Collaborators \cap SpecialistNames # {}
====
